---- MODULE Spec2Model ----
(***************************************************************************)
(* Model of the live-aggregation engine of opencode-usage                  *)
(* (src/live/state.ts, calendar.ts, as concatenated in                     *)
(* src/src/live/calendar.ts).                                              *)
(*                                                                         *)
(* Instants and durations are JavaScript millisecond numbers.  Current     *)
(* epoch milliseconds (about 1.7e12) and the 90-day default retention      *)
(* (7 776 000 000 ms) do not fit TLC's 32-bit integers, so every           *)
(* millisecond quantity is held exactly as a pair <<min, ms>> with         *)
(* value = min * 60000 + ms and 0 <= ms < 60000.                           *)
(***************************************************************************)
EXTENDS Integers, Sequences, FiniteSets, TLC

VARIABLES
  state,       \* the LiveState
  now,         \* Date.now()
  hostOffset,  \* minutes east of UTC of the host's local zone
  last,        \* the latest call: [op, arg, ret]
  watcher      \* the poller (MessageWatcher or RateLimitWatcher) and its directory

vars == <<state, now, hostOffset, last, watcher>>

----------------------------------------------------------------------------
(* Millisecond arithmetic on <<min, ms>> pairs *)

MINUTE_MS == 60000

Ms(n) == <<n \div MINUTE_MS, n % MINUTE_MS>>

Minutes(n) == <<n, 0>>

TsCmp(a, b) ==
  IF a[1] < b[1] THEN -1
  ELSE IF a[1] > b[1] THEN 1
  ELSE IF a[2] < b[2] THEN -1
  ELSE IF a[2] > b[2] THEN 1
  ELSE 0

TsGeq(a, b) == TsCmp(a, b) >= 0

TsGt(a, b) == TsCmp(a, b) > 0

TsLt(a, b) == TsCmp(a, b) < 0

TsAdd(a, d) ==
  LET ms == a[2] + d[2]
  IN  <<a[1] + d[1] + (ms \div MINUTE_MS), ms % MINUTE_MS>>

TsSub(a, d) ==
  LET ms == a[2] - d[2]
  IN  <<a[1] - d[1] + (ms \div MINUTE_MS), ms % MINUTE_MS>>

RECURSIVE TsMax(_)
TsMax(s) ==
  IF Len(s) = 1 THEN s[1]
  ELSE LET m == TsMax(Tail(s))
       IN  IF TsGeq(s[1], m) THEN s[1] ELSE m

----------------------------------------------------------------------------
(* Array helpers: Array.prototype.sort (stable), filter, map *)

InsertStable(t, x, Cmp(_, _)) ==
  LET k == Cardinality({j \in 1..Len(t) : Cmp(t[j], x) <= 0})
  IN  SubSeq(t, 1, k) \o <<x>> \o SubSeq(t, k + 1, Len(t))

StableSort(s, Cmp(_, _)) ==
  LET F[i \in 0..Len(s)] ==
        IF i = 0 THEN <<>> ELSE InsertStable(F[i - 1], s[i], Cmp)
  IN  F[Len(s)]

Filter(s, Keep(_)) == SelectSeq(s, Keep)

Map(s, Fn(_)) == [i \in 1..Len(s) |-> Fn(s[i])]

----------------------------------------------------------------------------
(* Calendar: the runtime's Date / Intl for the zone Europe/Bratislava.      *)
(* Civil dates are proleptic Gregorian; days count from 1970-01-01.         *)

DaysFromCivil(y, m, d) ==
  LET yy  == IF m <= 2 THEN y - 1 ELSE y
      era == yy \div 400
      yoe == yy - era * 400
      mp  == (m + 9) % 12
      doy == (153 * mp + 2) \div 5 + d - 1
      doe == yoe * 365 + yoe \div 4 - yoe \div 100 + doy
  IN  era * 146097 + doe - 719468

CivilFromDays(z) ==
  LET zz  == z + 719468
      era == zz \div 146097
      doe == zz - era * 146097
      yoe == (doe - doe \div 1460 + doe \div 36524 - doe \div 146096) \div 365
      doy == doe - (365 * yoe + yoe \div 4 - yoe \div 100)
      mp  == (5 * doy + 2) \div 153
      d   == doy - (153 * mp + 2) \div 5 + 1
      m   == IF mp < 10 THEN mp + 3 ELSE mp - 9
      y   == yoe + era * 400 + (IF m <= 2 THEN 1 ELSE 0)
  IN  [year |-> y, month |-> m, day |-> d]

\* Date.UTC(y, m - 1, d, hours, 0, 0, 0) with m counted from 1; hours may be negative
DateUTC(y, m, d, hours) == <<DaysFromCivil(y, m, d) * 1440 + hours * 60, 0>>

\* 0 = Sunday
Weekday(days) == (days + 4) % 7

LastSunday(y, m) ==
  LET d31 == DaysFromCivil(y, m, 31)
  IN  d31 - Weekday(d31)

\* Europe/Bratislava: CET (+60 min), CEST (+120 min) from the last Sunday of
\* March 01:00 UTC until the last Sunday of October 01:00 UTC
BratislavaOffsetMinutes(t) ==
  LET y      == CivilFromDays(t[1] \div 1440).year
      dstOn  == LastSunday(y, 3) * 1440 + 60
      dstOff == LastSunday(y, 10) * 1440 + 60
  IN  IF t[1] >= dstOn /\ t[1] < dstOff THEN 120 ELSE 60

\* Intl.DateTimeFormat({timeZone, year, month, day}).formatToParts(t)
FormatDateParts(t) == CivilFromDays((t[1] + BratislavaOffsetMinutes(t)) \div 1440)

\* Intl.DateTimeFormat({timeZone, timeZoneName: "shortOffset"}): "GMT+1",
\* "GMT+5:30", "GMT-3", and plain "GMT" for a zero offset
FormatShortOffset(offsetMin) ==
  LET a == IF offsetMin < 0 THEN 0 - offsetMin ELSE offsetMin
  IN  [sign    |-> IF offsetMin = 0 THEN "" ELSE IF offsetMin < 0 THEN "-" ELSE "+",
       hours   |-> a \div 60,
       minutes |-> a % 60]

\* tzPart.value.match(/GMT([+-])(\d+)/): the sign and the hour digits only;
\* 1 when nothing matches
ParseOffsetHours(part) ==
  IF part.sign = "" THEN 1
  ELSE part.hours * (IF part.sign = "+" THEN 1 ELSE -1)

\* new Date(y, m - 1, 1, 0, 0, 0, 0) with m counted from 1: midnight in the host's zone
LocalMidnight(y, m, hostOffsetMin) == <<DaysFromCivil(y, m, 1) * 1440 - hostOffsetMin, 0>>

\* Date.UTC(year, month - 1, 1, -offsetHours, 0, 0, 0) for the offset text read
utcMonthStart(year, month, tzPart) == DateUTC(year, month, 1, 0 - ParseOffsetHours(tzPart))

\* getMonthStartTimestamp that asks for the zone's offset at the time of the call
getMonthStartTimestampOffsetNow(t, hostOffsetMin) ==
  LET parts  == FormatDateParts(t)
      tzPart == FormatShortOffset(BratislavaOffsetMinutes(t))
  IN  utcMonthStart(parts.year, parts.month, tzPart)

getMonthStartTimestamp(t, hostOffsetMin) ==
  LET parts       == FormatDateParts(t)
      year        == parts.year
      month       == parts.month
      monthStart  == LocalMidnight(year, month, hostOffsetMin)
      tzPart      == FormatShortOffset(BratislavaOffsetMinutes(monthStart))
  IN  utcMonthStart(year, month, tzPart)

----------------------------------------------------------------------------
(* Records.  An optional field (cost?, tokens?, providerID?, modelID?) is    *)
(* <<>> when undefined and <<v>> when present.                              *)

None == <<>>

Some(v) == <<v>>

\* x || d for a number: undefined and 0 are falsy
OrNum(x, d) == IF x = None \/ x = Some(0) THEN d ELSE x[1]

\* x || d for a string: undefined and "" are falsy
OrStr(x, d) == IF x = None \/ x = Some("") THEN d ELSE x[1]

MessageRecord(id, created, providerID, modelID, tokens, cost) ==
  [id |-> id, time |-> [created |-> created], providerID |-> providerID,
   modelID |-> modelID, tokens |-> tokens, cost |-> cost]

MessageTokens(input, output, reasoning) ==
  Some([input |-> input, output |-> output, reasoning |-> reasoning])

RateLimitEvent(timestamp, providerID, partID) ==
  [timestamp |-> timestamp, providerID |-> providerID, partID |-> partID]

EmptyMap == [k \in {} |-> None]

\* A plain object (budgets, limits): its entries in insertion order
EmptyObject == <<>>

ObjectKeys(obj) == [i \in 1..Len(obj) |-> obj[i].key]

ObjectHas(obj, k) == \E i \in 1..Len(obj) : obj[i].key = k

ObjectGet(obj, k) == obj[CHOOSE i \in 1..Len(obj) : obj[i].key = k].value

STALE_THRESHOLD_MS == Ms(30 * 60 * 1000)

FIVE_MINUTES_MS == Ms(5 * 60 * 1000)

\* 90 * 24 * 60 * 60 * 1000 ms, the default maxAgeMs of pruneOldData
DEFAULT_MAX_AGE_MS == Minutes(90 * 24 * 60)

createInitialState(t) ==
  [messageIndex    |-> EmptyMap,
   messages        |-> <<>>,
   rateLimitEvents |-> <<>>,
   limits          |-> EmptyObject,
   budgets         |-> EmptyObject,
   currentWindow   |-> "5h",
   viewMode        |-> "mtd",
   sortMode        |-> "cost",
   lastUpdate      |-> t,
   timeSeries      |-> <<>>]

----------------------------------------------------------------------------
(* Ingestion *)

\* (a, b) => a.time.created - b.time.created
ByCreated(a, b) == TsCmp(a.time.created, b.time.created)

\* (a, b) => a.timestamp - b.timestamp
ByTimestamp(a, b) == TsCmp(a.timestamp, b.timestamp)

\* the ledger left in arrival order
SortMessagesSkipped(msgs) == msgs

SortMessages(msgs) == StableSort(msgs, ByCreated)

SortRateLimitEvents(events) == StableSort(events, ByTimestamp)

SortTimeSeries(points) == StableSort(points, ByTimestamp)

\* Map.prototype.set
MapSet(map, k, v) == [x \in DOMAIN map \cup {k} |-> IF x = k THEN v ELSE map[x]]

\* Math.floor(created / 60000) * 60000
MinuteBucket(created) == <<created[1], 0>>

TokensOf(msg) == msg.tokens[1].input + msg.tokens[1].output + msg.tokens[1].reasoning

\* updateTimeSeries that opens a new point for every message
updateTimeSeriesAlwaysPush(s, msg) ==
  IF msg.tokens = None THEN s
  ELSE [s EXCEPT !.timeSeries =
          SortTimeSeries(Append(@, [timestamp |-> MinuteBucket(msg.time.created),
                                    tokens    |-> TokensOf(msg),
                                    cost      |-> OrNum(msg.cost, 0)]))]

\* updateTimeSeries that adds a later message's tokens to its minute's point
\* and leaves the point's cost as the first message set it
updateTimeSeriesFirstCost(s, msg) ==
  IF msg.tokens = None THEN s
  ELSE
    LET minuteBucket == MinuteBucket(msg.time.created)
        hits         == {i \in 1..Len(s.timeSeries) : s.timeSeries[i].timestamp = minuteBucket}
    IN  IF hits # {}
        THEN LET i == CHOOSE j \in hits : \A k \in hits : j <= k
             IN  [s EXCEPT !.timeSeries[i].tokens = @ + TokensOf(msg)]
        ELSE [s EXCEPT !.timeSeries =
                SortTimeSeries(Append(@, [timestamp |-> minuteBucket,
                                          tokens    |-> TokensOf(msg),
                                          cost      |-> OrNum(msg.cost, 0)]))]

updateTimeSeries(s, msg) ==
  IF msg.tokens = None THEN s
  ELSE
    LET minuteBucket == MinuteBucket(msg.time.created)
        hits         == {i \in 1..Len(s.timeSeries) : s.timeSeries[i].timestamp = minuteBucket}
        totalTokens  == TokensOf(msg)
    IN  IF hits # {}
        THEN LET i == CHOOSE j \in hits : \A k \in hits : j <= k
             IN  [s EXCEPT !.timeSeries[i].tokens = @ + totalTokens,
                           !.timeSeries[i].cost   = @ + OrNum(msg.cost, 0)]
        ELSE [s EXCEPT !.timeSeries =
                SortTimeSeries(Append(@, [timestamp |-> minuteBucket,
                                          tokens    |-> totalTokens,
                                          cost      |-> OrNum(msg.cost, 0)]))]

\* addMessage without the identity check
addMessageNoCheck(s, msg, t) ==
  LET s1 == [s EXCEPT !.messageIndex = MapSet(@, msg.id, msg),
                      !.messages     = SortMessages(Append(@, msg)),
                      !.lastUpdate   = t]
  IN  [state |-> updateTimeSeries(s1, msg), ret |-> TRUE]

\* addMessage that refreshes the index entry and lastUpdate on a known id
addMessageUpsert(s, msg, t) ==
  IF msg.id \in DOMAIN s.messageIndex
  THEN [state |-> [s EXCEPT !.messageIndex = MapSet(@, msg.id, msg), !.lastUpdate = t],
        ret   |-> FALSE]
  ELSE addMessageNoCheck(s, msg, t)

\* the result carries the state after the call and the value returned
addMessage(s, msg, t) ==
  IF msg.id \in DOMAIN s.messageIndex
  THEN [state |-> s, ret |-> FALSE]
  ELSE LET s1 == [s EXCEPT !.messageIndex = MapSet(@, msg.id, msg),
                           !.messages     = SortMessages(Append(@, msg)),
                           !.lastUpdate   = t]
       IN  [state |-> updateTimeSeries(s1, msg), ret |-> TRUE]

\* addMessages that counts the elements offered, not the elements added
addMessagesCountAll(s, msgs, t) ==
  LET F[i \in 0..Len(msgs)] ==
        IF i = 0 THEN [state |-> s, ret |-> 0]
        ELSE [state |-> addMessage(F[i - 1].state, msgs[i], t).state,
              ret   |-> F[i - 1].ret + 1]
  IN  F[Len(msgs)]

addMessages(s, msgs, t) ==
  LET F[i \in 0..Len(msgs)] ==
        IF i = 0 THEN [state |-> s, ret |-> 0]
        ELSE LET r == addMessage(F[i - 1].state, msgs[i], t)
             IN  [state |-> r.state,
                  ret   |-> IF r.ret THEN F[i - 1].ret + 1 ELSE F[i - 1].ret]
  IN  F[Len(msgs)]

\* addRateLimitEvent that drops an event whose partID is already held
addRateLimitEventDedup(s, event) ==
  IF \E i \in 1..Len(s.rateLimitEvents) : s.rateLimitEvents[i].partID = event.partID
  THEN s
  ELSE [s EXCEPT !.rateLimitEvents = SortRateLimitEvents(Append(@, event))]

addRateLimitEvent(s, event) ==
  [s EXCEPT !.rateLimitEvents = SortRateLimitEvents(Append(@, event))]

\* pruneOldData that drops at most the oldest entry of each ledger per call
pruneOldDataOnePerCall(s, maxAgeMs, t) ==
  LET cutoff   == TsSub(t, maxAgeMs)
      messages == IF s.messages # <<>> /\ TsLt(Head(s.messages).time.created, cutoff)
                  THEN Tail(s.messages) ELSE s.messages
  IN  [s EXCEPT !.messages        = messages,
                !.messageIndex    = [id \in {messages[i].id : i \in 1..Len(messages)} |->
                                       LET i == CHOOSE j \in 1..Len(messages) :
                                                  messages[j].id = id
                                       IN  messages[i]],
                !.rateLimitEvents = IF @ # <<>> /\ TsLt(Head(@).timestamp, cutoff)
                                    THEN Tail(@) ELSE @,
                !.timeSeries      = IF @ # <<>> /\ TsLt(Head(@).timestamp, cutoff)
                                    THEN Tail(@) ELSE @]

\* pruneOldData that also drops what lies exactly on the cutoff
pruneOldDataStrict(s, maxAgeMs, t) ==
  LET cutoff    == TsSub(t, maxAgeMs)
      KeepM(m)  == TsGt(m.time.created, cutoff)
      KeepT(e)  == TsGt(e.timestamp, cutoff)
      messages  == Filter(s.messages, KeepM)
  IN  [s EXCEPT !.messages        = messages,
                !.messageIndex    = [id \in {messages[i].id : i \in 1..Len(messages)} |->
                                       LET i == CHOOSE j \in 1..Len(messages) :
                                                  messages[j].id = id
                                       IN  messages[i]],
                !.rateLimitEvents = Filter(@, KeepT),
                !.timeSeries      = Filter(@, KeepT)]

\* pruneOldData that filters the ledgers and leaves the identity index as it was
pruneOldDataKeepsIndex(s, maxAgeMs, t) ==
  LET cutoff    == TsSub(t, maxAgeMs)
      KeepM(m)  == TsGeq(m.time.created, cutoff)
      KeepT(e)  == TsGeq(e.timestamp, cutoff)
  IN  [s EXCEPT !.messages        = Filter(@, KeepM),
                !.rateLimitEvents = Filter(@, KeepT),
                !.timeSeries      = Filter(@, KeepT)]

pruneOldData(s, maxAgeMs, t) ==
  LET cutoff    == TsSub(t, maxAgeMs)
      KeepM(m)  == TsGeq(m.time.created, cutoff)
      KeepT(e)  == TsGeq(e.timestamp, cutoff)
      messages  == Filter(s.messages, KeepM)
  IN  [s EXCEPT !.messages        = messages,
                !.messageIndex    = [id \in {messages[i].id : i \in 1..Len(messages)} |->
                                       LET i == CHOOSE j \in 1..Len(messages) :
                                                  /\ messages[j].id = id
                                                  /\ \A k \in 1..Len(messages) :
                                                       messages[k].id = id => k <= j
                                       IN  messages[i]],
                !.rateLimitEvents = Filter(@, KeepT),
                !.timeSeries      = Filter(@, KeepT)]

----------------------------------------------------------------------------
(* Window derivation *)

\* the month-to-date filter with a strict comparison
getMessagesMTDStrict(s, t, hostOffsetMin) ==
  LET monthStart == getMonthStartTimestamp(t, hostOffsetMin)
      Keep(m)    == TsGt(m.time.created, monthStart)
  IN  Filter(s.messages, Keep)

getMessagesMTD(s, t, hostOffsetMin) ==
  LET monthStart == getMonthStartTimestamp(t, hostOffsetMin)
      Keep(m)    == TsGeq(m.time.created, monthStart)
  IN  Filter(s.messages, Keep)

getRateLimitsInWindow(s, windowMs, t) ==
  LET cutoff  == TsSub(t, windowMs)
      Keep(e) == TsGeq(e.timestamp, cutoff)
  IN  Filter(s.rateLimitEvents, Keep)

ZeroStats ==
  [totalTokens |-> 0, totalInput |-> 0, totalOutput |-> 0,
   totalReasoning |-> 0, totalCost |-> 0, messageCount |-> 0]

\* the fold step with reasoning tokens left out of totalTokens
WindowStepNoReasoning(acc, msg) ==
  IF msg.tokens = None THEN acc
  ELSE [totalTokens    |-> acc.totalTokens + msg.tokens[1].input + msg.tokens[1].output,
        totalInput     |-> acc.totalInput + msg.tokens[1].input,
        totalOutput    |-> acc.totalOutput + msg.tokens[1].output,
        totalReasoning |-> acc.totalReasoning + msg.tokens[1].reasoning,
        totalCost      |-> acc.totalCost + OrNum(msg.cost, 0),
        messageCount   |-> acc.messageCount + 1]

\* the fold step that counts a message without token data as one message of
\* zero tokens, with its cost
WindowStepCountsEvery(acc, msg) ==
  LET input     == IF msg.tokens = None THEN 0 ELSE msg.tokens[1].input
      output    == IF msg.tokens = None THEN 0 ELSE msg.tokens[1].output
      reasoning == IF msg.tokens = None THEN 0 ELSE msg.tokens[1].reasoning
  IN  [totalTokens    |-> acc.totalTokens + input + output + reasoning,
       totalInput     |-> acc.totalInput + input,
       totalOutput    |-> acc.totalOutput + output,
       totalReasoning |-> acc.totalReasoning + reasoning,
       totalCost      |-> acc.totalCost + OrNum(msg.cost, 0),
       messageCount   |-> acc.messageCount + 1]

WindowStep(acc, msg) ==
  IF msg.tokens = None THEN acc
  ELSE LET tokens == TokensOf(msg)
       IN  [totalTokens    |-> acc.totalTokens + tokens,
            totalInput     |-> acc.totalInput + msg.tokens[1].input,
            totalOutput    |-> acc.totalOutput + msg.tokens[1].output,
            totalReasoning |-> acc.totalReasoning + msg.tokens[1].reasoning,
            totalCost      |-> acc.totalCost + OrNum(msg.cost, 0),
            messageCount   |-> acc.messageCount + 1]

computeWindowStats(messages) ==
  LET F[i \in 0..Len(messages)] ==
        IF i = 0 THEN ZeroStats ELSE WindowStep(F[i - 1], messages[i])
  IN  F[Len(messages)]

\* month-to-date statistics taken over the whole ledger
getMTDStatsUnfiltered(s, t, hostOffsetMin) == computeWindowStats(s.messages)

getMTDStats(s, t, hostOffsetMin) == computeWindowStats(getMessagesMTD(s, t, hostOffsetMin))

getAllTimeStats(s) == computeWindowStats(s.messages)

----------------------------------------------------------------------------
(* Health *)

\* the provider classification with the throttle threshold off by one
computeHealthStatusOffByOne(rateLimitCount5m, lastRateLimit, t) ==
  IF rateLimitCount5m > 3 THEN "throttled"
  ELSE IF rateLimitCount5m >= 1 THEN "warn"
  ELSE "ok"

computeHealthStatus(rateLimitCount5m, lastRateLimit, t) ==
  IF rateLimitCount5m >= 3 THEN "throttled"
  ELSE IF rateLimitCount5m >= 1 THEN "warn"
  ELSE IF lastRateLimit # None /\ lastRateLimit # Some(<<0, 0>>)
          /\ TsLt(t, TsAdd(lastRateLimit[1], FIVE_MINUTES_MS)) THEN "warn"
  ELSE "ok"

\* the model classification that is stale from exactly 30 minutes on
computeModelHealthStatusInclusive(lastSeen, providerThrottled, t) ==
  IF providerThrottled THEN "error"
  ELSE IF TsGeq(t, TsAdd(lastSeen, STALE_THRESHOLD_MS)) THEN "stale"
  ELSE "active"

computeModelHealthStatus(lastSeen, providerThrottled, t) ==
  IF providerThrottled THEN "error"
  ELSE IF TsGt(t, TsAdd(lastSeen, STALE_THRESHOLD_MS)) THEN "stale"
  ELSE "active"

----------------------------------------------------------------------------
(* Grouped statistics *)

Range(seq) == {seq[i] : i \in 1..Len(seq)}

\* the keys with every occurrence kept, repeated ones too
EveryOccurrence(seq) == seq

\* the keys of a Map or Set filled in this order: first occurrences
Distinct(seq) ==
  LET F[i \in 0..Len(seq)] ==
        IF i = 0 THEN <<>>
        ELSE IF seq[i] \in Range(F[i - 1]) THEN F[i - 1] ELSE Append(F[i - 1], seq[i])
  IN  F[Len(seq)]

\* the provider key taken from the field as it is, absent or not
ProviderKeyRaw(msg) == IF msg.providerID = None THEN "" ELSE msg.providerID[1]

ProviderKey(msg) == OrStr(msg.providerID, "unknown")

ModelKey(msg) == OrStr(msg.modelID, "unknown")

\* the quotient without the factor 100
PercentNoScale(a, b) == [num |-> a, den |-> b]

\* a quotient a / b * 100 of two numbers, held as a fraction
Percent(a, b) == [num |-> a * 100, den |-> b]

\* (a, b) => b.totalCost - a.totalCost
\* the comparator with its operands exchanged: cheapest first
ByCostAsc(a, b) == a.totalCost - b.totalCost

ByCostDesc(a, b) == b.totalCost - a.totalCost

\* (a, b) => b.totalTokens - a.totalTokens
ByTokensDesc(a, b) == b.totalTokens - a.totalTokens

ProviderEntry(s, messages, rateLimits5m, providerID, t) ==
  LET InGroup(m)         == ProviderKey(m) = providerID
      providerMsgs       == Filter(messages, InGroup)
      stats              == computeWindowStats(providerMsgs)
      OfProvider(e)      == e.providerID = providerID
      providerRateLimits == Filter(rateLimits5m, OfProvider)
      Stamp(e)           == e.timestamp
      lastRateLimit      == IF Len(providerRateLimits) > 0
                            THEN Some(TsMax(Map(providerRateLimits, Stamp)))
                            ELSE None
      health             == [status           |-> computeHealthStatus(Len(providerRateLimits), lastRateLimit, t),
                             rateLimitCount5m |-> Len(providerRateLimits),
                             lastRateLimit    |-> lastRateLimit]
      budget             == IF ObjectHas(s.budgets, providerID)
                            THEN ObjectGet(s.budgets, providerID)
                            ELSE [monthlyTokens |-> None, monthlyCost |-> None]
      hasTokens          == OrNum(budget.monthlyTokens, 0) # 0
      hasCost            == OrNum(budget.monthlyCost, 0) # 0
  IN  [totalTokens       |-> stats.totalTokens,
       totalInput        |-> stats.totalInput,
       totalOutput       |-> stats.totalOutput,
       totalReasoning    |-> stats.totalReasoning,
       totalCost         |-> stats.totalCost,
       messageCount      |-> stats.messageCount,
       providerID        |-> providerID,
       health            |-> health,
       budgetTokens      |-> IF hasTokens THEN budget.monthlyTokens ELSE None,
       budgetPercent     |-> IF hasTokens
                             THEN Some(Percent(stats.totalTokens, budget.monthlyTokens[1]))
                             ELSE None,
       budgetCost        |-> IF hasCost THEN budget.monthlyCost ELSE None,
       budgetCostPercent |-> IF hasCost
                             THEN Some(Percent(stats.totalCost, budget.monthlyCost[1]))
                             ELSE None]

\* the provider keys taken from traffic alone
computeProviderStatsTrafficOnly(s, messages, t) ==
  LET rateLimits5m  == getRateLimitsInWindow(s, FIVE_MINUTES_MS, t)
      EventKey(e)   == e.providerID
      allProviders  == Distinct(Map(messages, ProviderKey)
                                \o Map(rateLimits5m, EventKey))
      Entry(p)      == ProviderEntry(s, messages, rateLimits5m, p, t)
  IN  StableSort(Map(allProviders, Entry), ByCostDesc)

computeProviderStats(s, messages, t) ==
  LET rateLimits5m  == getRateLimitsInWindow(s, FIVE_MINUTES_MS, t)
      EventKey(e)   == e.providerID
      allProviders  == Distinct(Map(messages, ProviderKey)
                                \o Map(rateLimits5m, EventKey)
                                \o ObjectKeys(s.budgets))
      Entry(p)      == ProviderEntry(s, messages, rateLimits5m, p, t)
  IN  StableSort(Map(allProviders, Entry), ByCostDesc)

getProviderStatsMTD(s, t, hostOffsetMin) ==
  computeProviderStats(s, getMessagesMTD(s, t, hostOffsetMin), t)

getProviderStatsAll(s, t) == computeProviderStats(s, s.messages, t)

\* the providers with 2 or more of the events
ThrottledProvidersFromTwo(rateLimits5m) ==
  {rateLimits5m[i].providerID : i \in
     {j \in 1..Len(rateLimits5m) :
        Cardinality({k \in 1..Len(rateLimits5m) :
                       rateLimits5m[k].providerID = rateLimits5m[j].providerID}) >= 2}}

ThrottledProviders(rateLimits5m) ==
  {rateLimits5m[i].providerID : i \in
     {j \in 1..Len(rateLimits5m) :
        Cardinality({k \in 1..Len(rateLimits5m) :
                       rateLimits5m[k].providerID = rateLimits5m[j].providerID}) >= 3}}

\* the provider of the group's latest message
LastProvider(msgs) == ProviderKey(msgs[Len(msgs)])

\* msgs[0]?.providerID || "unknown", msgs never being empty
FirstProvider(msgs) == ProviderKey(msgs[1])

\* ModelEntry that divides by the subset total whatever it is
ModelEntryUnguarded(messages, throttledProviders, totalStats, modelID, t) ==
  LET InGroup(m)        == ModelKey(m) = modelID
      msgs              == Filter(messages, InGroup)
      stats             == computeWindowStats(msgs)
      providerID        == FirstProvider(msgs)
      Created(m)        == m.time.created
      lastSeen          == TsMax(Map(msgs, Created))
      providerThrottled == providerID \in throttledProviders
      sharePercent      == Percent(stats.totalTokens, totalStats.totalTokens)
  IN  [totalTokens    |-> stats.totalTokens,
       totalInput     |-> stats.totalInput,
       totalOutput    |-> stats.totalOutput,
       totalReasoning |-> stats.totalReasoning,
       totalCost      |-> stats.totalCost,
       messageCount   |-> stats.messageCount,
       modelID        |-> modelID,
       providerID     |-> providerID,
       health         |-> [status            |-> computeModelHealthStatus(lastSeen, providerThrottled, t),
                           lastSeen          |-> lastSeen,
                           providerThrottled |-> providerThrottled],
       sharePercent   |-> sharePercent,
       lastSeen       |-> lastSeen]

ModelEntry(messages, throttledProviders, totalStats, modelID, t) ==
  LET InGroup(m)        == ModelKey(m) = modelID
      msgs              == Filter(messages, InGroup)
      stats             == computeWindowStats(msgs)
      providerID        == FirstProvider(msgs)
      Created(m)        == m.time.created
      lastSeen          == TsMax(Map(msgs, Created))
      providerThrottled == providerID \in throttledProviders
      sharePercent      == IF totalStats.totalTokens > 0
                           THEN Percent(stats.totalTokens, totalStats.totalTokens)
                           ELSE [num |-> 0, den |-> 1]
  IN  [totalTokens    |-> stats.totalTokens,
       totalInput     |-> stats.totalInput,
       totalOutput    |-> stats.totalOutput,
       totalReasoning |-> stats.totalReasoning,
       totalCost      |-> stats.totalCost,
       messageCount   |-> stats.messageCount,
       modelID        |-> modelID,
       providerID     |-> providerID,
       health         |-> [status            |-> computeModelHealthStatus(lastSeen, providerThrottled, t),
                           lastSeen          |-> lastSeen,
                           providerThrottled |-> providerThrottled],
       sharePercent   |-> sharePercent,
       lastSeen       |-> lastSeen]

\* String.prototype.localeCompare over the model ids that occur
ModelNamesInOrder == <<"claude", "gpt", "unknown">>

NameRank(name) == CHOOSE i \in 1..Len(ModelNamesInOrder) : ModelNamesInOrder[i] = name

ByNameDesc(a, b) == NameRank(b.modelID) - NameRank(a.modelID)

ByName(a, b) == NameRank(a.modelID) - NameRank(b.modelID)

computeModelStats(s, messages, sortMode, t) ==
  LET rateLimits5m       == getRateLimitsInWindow(s, FIVE_MINUTES_MS, t)
      throttledProviders == ThrottledProviders(rateLimits5m)
      groups             == Distinct(Map(messages, ModelKey))
      totalStats         == computeWindowStats(messages)
      Entry(k)           == ModelEntry(messages, throttledProviders, totalStats, k, t)
      results            == Map(groups, Entry)
  IN  CASE sortMode = "cost"   -> StableSort(results, ByCostDesc)
        [] sortMode = "tokens" -> StableSort(results, ByTokensDesc)
        [] sortMode = "name"   -> StableSort(results, ByName)
        [] OTHER               -> StableSort(results, ByCostDesc)

getModelStatsMTD(s, sortMode, t, hostOffsetMin) ==
  computeModelStats(s, getMessagesMTD(s, t, hostOffsetMin), sortMode, t)

getModelStatsAll(s, sortMode, t) == computeModelStats(s, s.messages, sortMode, t)

----------------------------------------------------------------------------
(* The renderer (src/live/ui.ts, as concatenated in src/src/live/calendar.ts). *)
(* The screen is held as the values the boxes are filled from.               *)

\* Array.prototype.slice(0, n)
SliceTo(seq, n) == SubSeq(seq, 1, IF Len(seq) < n THEN Len(seq) ELSE n)

\* Array.prototype.slice(-n)
SliceLast(seq, n) == SubSeq(seq, IF Len(seq) < n THEN 1 ELSE Len(seq) - n + 1, Len(seq))

Reverse(seq) == [i \in 1..Len(seq) |-> seq[Len(seq) + 1 - i]]

\* the alerts box: the latest three events younger than 30 minutes, newest first
recentAlerts(s, t) ==
  LET Young(e) == TsLt(t, TsAdd(e.timestamp, Ms(30 * 60 * 1000)))
  IN  Reverse(SliceLast(Filter(s.rateLimitEvents, Young), 3))

\* renderUI reads the state and fills the boxes: the values it shows
renderUI(s, t, hostOffsetMin) ==
  LET isViewMTD == s.viewMode = "mtd"
      stats     == IF isViewMTD THEN getMTDStats(s, t, hostOffsetMin) ELSE getAllTimeStats(s)
      providers == IF isViewMTD THEN getProviderStatsMTD(s, t, hostOffsetMin)
                   ELSE getProviderStatsAll(s, t)
      models    == IF isViewMTD THEN getModelStatsMTD(s, s.sortMode, t, hostOffsetMin)
                   ELSE getModelStatsAll(s, s.sortMode, t)
  IN  [viewMode  |-> s.viewMode,
       stats     |-> stats,
       providers |-> SliceTo(providers, 5),
       models    |-> SliceTo(models, 15),
       sortMode  |-> s.sortMode,
       alerts    |-> recentAlerts(s, t)]

\* key "a": state.viewMode === "mtd" ? "all" : "mtd"
toggleViewMode(viewMode) == IF viewMode = "mtd" THEN "all" ELSE "mtd"

SortModeCycle == <<"cost", "tokens", "name">>

\* modes.indexOf(sortMode), counted from 0, -1 when absent
IndexOfSortMode(sortMode) ==
  IF \E i \in 1..Len(SortModeCycle) : SortModeCycle[i] = sortMode
  THEN (CHOOSE i \in 1..Len(SortModeCycle) : SortModeCycle[i] = sortMode) - 1
  ELSE -1

\* a cycle that never reaches "name"
nextSortModeOfTwo(sortMode) == IF sortMode = "cost" THEN "tokens" ELSE "cost"

\* key "c": modes[(currentIdx + 1) % modes.length]
nextSortMode(sortMode) ==
  SortModeCycle[((IndexOfSortMode(sortMode) + 1) % Len(SortModeCycle)) + 1]

----------------------------------------------------------------------------
(* Rate-limit detection (src/live/rateLimits.ts).  Texts are strings;        *)
(* a string is read one character at a time with SubSeq.                      *)

UpperCaseLetters == "ABCDEFGHIJKLMNOPQRSTUVWXYZ"

LowerCaseLetters == "abcdefghijklmnopqrstuvwxyz"

LowerChar(c) ==
  IF \E i \in 1..Len(UpperCaseLetters) : SubSeq(UpperCaseLetters, i, i) = c
  THEN LET i == CHOOSE j \in 1..Len(UpperCaseLetters) : SubSeq(UpperCaseLetters, j, j) = c
       IN  SubSeq(LowerCaseLetters, i, i)
  ELSE c

\* String.prototype.toLowerCase
RECURSIVE toLowerCase(_)
toLowerCase(text) ==
  IF text = "" THEN ""
  ELSE LowerChar(SubSeq(text, 1, 1)) \o toLowerCase(SubSeq(text, 2, Len(text)))

\* String.prototype.includes
includes(text, h) ==
  \E i \in 1..(Len(text) - Len(h) + 1) : SubSeq(text, i, i + Len(h) - 1) = h

\* String.prototype.slice(0, end)
SliceFromStart(text, end) == SubSeq(text, 1, IF Len(text) < end THEN Len(text) ELSE end)

\* a part file's content after JSON.parse
PartRecord(id, tool, partState) == [id |-> id, tool |-> tool, state |-> partState]

PartState(status, output, error) ==
  Some([status |-> status, output |-> output, error |-> error])

\* part.state?.field
StateField(part, field) == IF part.state = None THEN None ELSE part.state[1][field]

\* the regular expressions, all literal and all with the flag i
RATE_LIMIT_PATTERNS ==
  <<"429", "too many requests", "rate limit", "throttl", "quota exceeded", "capacity">>

\* pattern.test(text) for a literal pattern with the flag i
TestIgnoreCase(pattern, text) == includes(toLowerCase(text), toLowerCase(pattern))

PROVIDER_HINTS ==
  <<[key |-> "anthropic",  value |-> <<"claude", "anthropic", "sonnet", "opus", "haiku">>],
    [key |-> "openai",     value |-> <<"openai", "gpt", "o1", "o3", "chatgpt">>],
    [key |-> "google",     value |-> <<"google", "gemini", "palm", "vertex">>],
    [key |-> "openrouter", value |-> <<"openrouter">>]>>

\* the positions of PROVIDER_HINTS with a hint that lower includes
HintedProviders(lower) ==
  {k \in 1..Len(PROVIDER_HINTS) :
     \E j \in 1..Len(PROVIDER_HINTS[k].value) : includes(lower, PROVIDER_HINTS[k].value[j])}

\* detectProvider that keeps the last provider hinted at
detectProviderLastMatch(text, tool) ==
  LET lower == toLowerCase(text \o OrStr(tool, ""))
      hits  == HintedProviders(lower)
  IN  IF hits = {} THEN "unknown"
      ELSE PROVIDER_HINTS[CHOOSE k \in hits : \A j \in hits : j <= k].key

detectProvider(text, tool) ==
  LET lower == toLowerCase(text \o OrStr(tool, ""))
      hits  == HintedProviders(lower)
  IN  IF hits = {} THEN "unknown"
      ELSE PROVIDER_HINTS[CHOOSE k \in hits : \A j \in hits : k <= j].key

\* isRateLimitError that looks at the text alone
isRateLimitErrorAnyStatus(part) ==
  LET textToCheck == OrStr(StateField(part, "output"), "") \o " "
                       \o OrStr(StateField(part, "error"), "")
  IN  \E k \in 1..Len(RATE_LIMIT_PATTERNS) : TestIgnoreCase(RATE_LIMIT_PATTERNS[k], textToCheck)

isRateLimitError(part) ==
  IF /\ StateField(part, "status") # Some("completed")
     /\ StateField(part, "status") # Some("error")
  THEN FALSE
  ELSE LET textToCheck == OrStr(StateField(part, "output"), "") \o " "
                            \o OrStr(StateField(part, "error"), "")
       IN  \E k \in 1..Len(RATE_LIMIT_PATTERNS) :
             TestIgnoreCase(RATE_LIMIT_PATTERNS[k], textToCheck)

ERROR_MESSAGE_MAX == 200

\* the event processNewFile emits for a part read at time t, if it emits one
rateLimitEventOf(part, t) ==
  IF isRateLimitError(part)
  THEN LET errorMessage == OrStr(StateField(part, "output"),
                                 OrStr(StateField(part, "error"), ""))
       IN  Some([timestamp    |-> t,
                 providerID   |-> detectProvider(errorMessage, part.tool),
                 modelID      |-> None,
                 errorMessage |-> SliceFromStart(errorMessage, ERROR_MESSAGE_MAX),
                 partID       |-> part.id])
  ELSE None

----------------------------------------------------------------------------
(* Inputs *)

\* midnight of 1 April 2026 in Europe/Bratislava (CEST): 2026-03-31T22:00:00Z
M0 == DateUTC(2026, 3, 31, 22)

At(ms) == TsAdd(M0, Ms(ms))

Before(ms) == TsSub(M0, Ms(ms))

ClockValues == {Before(1), At(2 * 60000), At(30 * 60000), At(31 * 60000)}

HostOffsets == {60, -480}

MsgA1 == MessageRecord("a", At(1000), Some("openai"), Some("gpt"), MessageTokens(10, 20, 0), Some(1))

MsgA2 == MessageRecord("a", Before(1), Some("anthropic"), Some("claude"), MessageTokens(1, 1, 1), None)

MsgB1 == MessageRecord("b", Before(1000), Some("openai"), Some("gpt"), MessageTokens(5, 5, 0), Some(1))

MsgB2 == MessageRecord("b", At(0), None, None, None, Some(3))

MsgC1 == MessageRecord("c", At(2 * 60000), Some("anthropic"), Some("claude"), MessageTokens(0, 7, 2), Some(2))

MsgC2 == MessageRecord("c", At(0), Some("openai"), Some("gpt"), MessageTokens(4, 0, 0), None)

MsgPool == {MsgA1, MsgA2, MsgB1, MsgB2, MsgC1, MsgC2}

BatchPool == {MsgA1, MsgA2, MsgB1}

MaxBatch == 2

Batches == UNION {[1..n -> BatchPool] : n \in 0..MaxBatch}

HealthMsgPool == {MsgA1, MsgB2, MsgC1}

EventPool ==
  {RateLimitEvent(At(25 * 60000), "openai", "p1"),
   RateLimitEvent(TsSub(At(25 * 60000), Ms(1)), "openai", "p2"),
   RateLimitEvent(At(26 * 60000), "anthropic", "p3")}

MaxRateLimitEvents == 3

PruneAges == {FIVE_MINUTES_MS, STALE_THRESHOLD_MS, DEFAULT_MAX_AGE_MS}

SortModes == {"cost", "tokens", "name"}

\* one entry of budgets.json: a provider's optional ceilings
ProviderBudget(monthlyTokens, monthlyCost) ==
  [monthlyTokens |-> monthlyTokens, monthlyCost |-> monthlyCost]

\* what loadBudgetsConfig can return: {} (also on a missing or broken
\* file), a cost ceiling alone, both ceilings together with a provider
\* that never has traffic, and ceilings of 0
BudgetsPool ==
  {EmptyObject,
   <<[key |-> "openai", value |-> ProviderBudget(None, Some(100))]>>,
   <<[key |-> "openai", value |-> ProviderBudget(Some(60), Some(100))],
     [key |-> "google", value |-> ProviderBudget(Some(1000), None)]>>,
   <<[key |-> "anthropic", value |-> ProviderBudget(Some(0), Some(0))]>>}

MsgD1 == MessageRecord("d", At(1000), Some("openai"), Some("gpt"),
                       MessageTokens(10, 20, 0), Some(25))

BudgetMsgPool == {MsgD1, MsgB2, MsgA2}

BudgetEventPool ==
  {RateLimitEvent(At(25 * 60000), "openai", "p1"),
   RateLimitEvent(At(26 * 60000), "mistral", "p4")}

MaxBudgetEvents == 2

\* part records: every shape of state and status, texts with and without
\* the patterns in either case, a pattern split over output and error, hints
\* of several providers, and a hint that only the tool name completes
PartStatuses == {None, Some("completed"), Some("error"), Some("running"), Some("Completed")}

PartOutputs ==
  {None, Some(""), Some("ok"), Some("HTTP 429"), Some("Too Many Requests from Claude"),
   Some("rate"), Some("GPT-4 at Capacity, gemini next"), Some("Retry via turbo")}

PartErrors ==
  {None, Some("limit"), Some("Rate Limit reached"),
   Some("request THROTTLED by OpenRouter for gemini"), Some("Quota Exceeded"),
   Some("timeout")}

PartTools == {None, Some("bash"), Some("1password"), Some("Gemini-cli")}

PartPool ==
  {PartRecord("prt_1", tool, None) : tool \in PartTools}
    \cup {PartRecord("prt_1", tool, PartState(status, output, error)) :
            tool \in PartTools, status \in PartStatuses,
            output \in PartOutputs, error \in PartErrors}

\* the record files of the watched directory, in the order readdir lists them
PathOrder == <<"f1", "f2">>

\* the record a file holds once it is written completely: a message with
\* token data or a part that is a rate-limit incident
HitRecord(kind, path) ==
  IF kind = "message"
  THEN (IF path = "f1" THEN MsgA1 ELSE MsgC1)
  ELSE (IF path = "f1"
        THEN PartRecord("prt_1", Some("bash"),
                        PartState(Some("error"), None, Some("Rate Limit reached")))
        ELSE PartRecord("prt_2", None,
                        PartState(Some("completed"), Some("Too Many Requests from Claude"), None)))

\* a complete record that is no event: a message without token data or a
\* part that completed normally
PlainRecord(kind) ==
  IF kind = "message" THEN MsgB2
  ELSE PartRecord("prt_3", Some("bash"), PartState(Some("completed"), Some("ok"), None))

WatcherKinds == {"message", "rateLimit"}

\* polls of one poller that may be in flight together
MaxPolls == 2

\* messages for the grouped statistics: a model served by two providers,
\* one of them not named; a provider whose model is not named, with a
\* later message without token data; one message before the month
MsgG2 == MessageRecord("g", At(0), None, Some("gpt"), MessageTokens(3, 0, 1), None)

MsgH3 == MessageRecord("h", At(3 * 60000), Some("anthropic"), None, None, Some(3))

MsgI4 == MessageRecord("i", At(2 * 60000), Some("anthropic"), None, MessageTokens(1, 1, 1), Some(2))

GroupMsgPool == {MsgB1, MsgA1, MsgG2, MsgH3, MsgI4}

GroupEventPool == {RateLimitEvent(At(26 * 60000), "anthropic", "p3")}

\* records on both sides of the cutoffs now - maxAge, one exactly on a cutoff
\* clock values around the daylight-saving changes of Europe/Bratislava, a
\* change of year, a leap year and the two sides of a month boundary
CalendarClocks ==
  {DateUTC(2024, 3, 31, 12), DateUTC(2024, 4, 10, 0),
   DateUTC(2026, 3, 30, 12), Before(1), M0,
   DateUTC(2026, 7, 15, 9), DateUTC(2026, 10, 26, 0), DateUTC(2026, 11, 1, 0),
   TsSub(DateUTC(2026, 12, 31, 23), Ms(1)), DateUTC(2026, 12, 31, 23)}

\* the host's zone, in minutes east of UTC
CalendarHostOffsets == {60, -480, 840, -720, 330}

\* offsets of a zone, in minutes east of UTC, whose shortOffset text is read:
\* those of Europe/Bratislava, other whole hours, zero, and fractional hours
ZoneOffsets == {60, 120, -480, 0, 330, -210}

\* a message older than the default retention at every clock value
MsgOld ==
  MessageRecord("o", TsSub(M0, DEFAULT_MAX_AGE_MS), None, None, MessageTokens(1, 0, 0), None)

UIMsgPool == {MsgB1, MsgC1, MsgOld}

UIEventPool == {RateLimitEvent(At(25 * 60000), "openai", "p1")}

\* the clock of the running application: while events are recent, at the
\* edge of the staleness threshold, and after every event has aged out
UIClocks == <<At(26 * 60000), At(30 * 60000), At(32 * 60000)>>

\* what the stores hold when the dashboard starts: nothing; a message past
\* the default retention next to a recent one; two recent messages
StoredMessages == {<<>>, <<MsgOld, MsgB1>>, <<MsgB1, MsgC1>>}

StoredEvents == {<<>>, <<RateLimitEvent(At(25 * 60000), "openai", "p1")>>}

PruneMsgPool == {MsgA1, MsgB1, MsgC2}

PruneEventPool ==
  {RateLimitEvent(At(25 * 60000), "openai", "p1"),
   RateLimitEvent(TsSub(At(25 * 60000), Ms(1)), "openai", "p2")}

MsgP1 == MessageRecord("p", At(60000), Some("openai"), Some("gpt"), MessageTokens(1, 1, 0), Some(1))

MsgQ1 == MessageRecord("q", At(60000), Some("anthropic"), Some("gpt"), MessageTokens(2, 0, 0), Some(1))

\* four messages of four ids, two of them created in the same millisecond
\* for one model by two providers; listed in an order that is not the order
\* of creation
OrderMsgSeq == <<MsgC1, MsgP1, MsgQ1, MsgB1>>

\* four events, two of them of two providers with the same timestamp
OrderEventSeq ==
  <<RateLimitEvent(At(25 * 60000), "openai", "p1"),
    RateLimitEvent(At(25 * 60000), "mistral", "p4"),
    RateLimitEvent(At(24 * 60000), "openai", "p2"),
    RateLimitEvent(At(23 * 60000), "openai", "p5")>>

MsgJ1 == MessageRecord("j", At(2000), Some("openai"), Some("gpt"), MessageTokens(2, 3, 1), Some(1))

\* three messages of one minute, 0 s, 1 s and 2 s into it, and one of a later minute
SeriesMsgPool == {MsgC2, MsgA1, MsgJ1, MsgC1}

\* clock values at which now - 5 minutes lies half a second into a minute
SeriesClocks == {At(3000), At(5 * 60000 + 500), At(6 * 60000 + 500)}

----------------------------------------------------------------------------
(* The pollers (src/live/watcher.ts, src/live/rateLimits.ts).  A file is     *)
(* None when absent and otherwise <<[content, mtime]>>, where content is     *)
(* None while the file cannot be read or parsed (a partial write) and        *)
(* <<record>> once JSON.parse succeeds.                                      *)

File(content, mtime) == Some([content |-> content, mtime |-> mtime])

\* readdir filtered to the record files
ListDir(disk) == SelectSeq(PathOrder, LAMBDA path : disk[path] # None)

SINCE_MS == Minutes(60)

\* the body of processNewFile after the settle delay, for a file read at
\* time t: the try block either throws (failed), emits, or ends silently
processNewFile(kind, file, t) ==
  IF file = None \/ file[1].content = None
  THEN [outcome |-> "failed", event |-> None]
  ELSE LET record == file[1].content[1]
           event  == IF kind = "message"
                     THEN (IF record.tokens # None THEN Some(record) ELSE None)
                     ELSE rateLimitEventOf(record, t)
       IN  [outcome |-> IF event = None THEN "silent" ELSE "emitted", event |-> event]

\* one file of loadAllMessages / loadRecentEvents at time t
loadFile(kind, file, t) ==
  IF kind = "message" THEN processNewFile(kind, file, t)
  ELSE IF file = None THEN [outcome |-> "failed", event |-> None]
  ELSE IF TsLt(file[1].mtime, TsSub(t, SINCE_MS)) THEN [outcome |-> "silent", event |-> None]
  ELSE processNewFile(kind, file, file[1].mtime)

\* the handler startLive attaches to the poller's event
onEvent(kind, s, event, t) ==
  IF kind = "message" THEN addMessages(s, <<event>>, t).state
  ELSE addRateLimitEvent(s, event)

\* startLive's use of the initial load: addMessages(state, initialMessages),
\* or addRateLimitEvent for each initial event
onInitialLoad(kind, s, events, t) ==
  IF kind = "message" THEN addMessages(s, events, t).state
  ELSE LET F[i \in 0..Len(events)] ==
             IF i = 0 THEN s ELSE addRateLimitEvent(F[i - 1], events[i])
       IN  F[Len(events)]

RemoveAt(seq, i) == SubSeq(seq, 1, i - 1) \o SubSeq(seq, i + 1, Len(seq))

LogEntry(path, outcome, w) ==
  [path |-> path, outcome |-> outcome,
   atLoad |-> w.lifecycle = "new", afterStop |-> w.lifecycle = "stopped"]

\* the scan that records every listed path as seen when it starts on the first
ScanFilesRecordsAll(w, i, files) ==
  LET unseen == {k \in 1..Len(files) : files[k] \notin w.seenFiles}
  IN  IF unseen = {} THEN [w EXCEPT !.polls = RemoveAt(@, i)]
      ELSE LET k == CHOOSE j \in unseen : \A l \in unseen : j <= l
           IN  [w EXCEPT !.seenFiles = @ \cup Range(files),
                         !.polls[i]  = [phase |-> "settle",
                                        files |-> SubSeq(files, k + 1, Len(files)),
                                        path  |-> Some(files[k])]]

\* the scan that starts on the first path not seen without recording it
ScanFilesUnrecorded(w, i, files) ==
  LET unseen == {k \in 1..Len(files) : files[k] \notin w.seenFiles}
  IN  IF unseen = {} THEN [w EXCEPT !.polls = RemoveAt(@, i)]
      ELSE LET k == CHOOSE j \in unseen : \A l \in unseen : j <= l
           IN  [w EXCEPT !.polls[i]  = [phase |-> "settle",
                                        files |-> SubSeq(files, k + 1, Len(files)),
                                        path  |-> Some(files[k])]]

\* the for loop of poll i over the listed files, up to its next await: the
\* first path not seen is recorded as seen and its settle delay begins; with
\* none left the poll returns
ScanFiles(w, i, files) ==
  LET unseen == {k \in 1..Len(files) : files[k] \notin w.seenFiles}
  IN  IF unseen = {} THEN [w EXCEPT !.polls = RemoveAt(@, i)]
      ELSE LET k == CHOOSE j \in unseen : \A l \in unseen : j <= l
           IN  [w EXCEPT !.seenFiles = @ \cup {files[k]},
                         !.polls[i]  = [phase |-> "settle",
                                        files |-> SubSeq(files, k + 1, Len(files)),
                                        path  |-> Some(files[k])]]

createWatcher(kind, disk) ==
  [kind      |-> kind,
   lifecycle |-> "new",
   disk      |-> disk,
   seenFiles |-> {},
   polls     |-> <<>>,
   log       |-> <<>>]

----------------------------------------------------------------------------
(* The engine as a state machine: one action per exported operation *)

\* the call made last; a poller step holds its path and its outcome as
\* one-element tuples
Call(op, arg, ret) == [op |-> op, arg |-> arg, ret |-> ret]

\* the engine used without a poller
NoWatcher == <<>>

Init ==
  /\ now \in ClockValues
  /\ hostOffset \in HostOffsets
  /\ state = createInitialState(now)
  /\ last = Call("createInitialState", <<>>, <<>>)
  /\ watcher = NoWatcher

Tick ==
  /\ \E t \in ClockValues : TsGt(t, now) /\ now' = t
  /\ last' = Call("tick", <<>>, <<>>)
  /\ UNCHANGED <<state, hostOffset, watcher>>

AddMessage(msg) ==
  LET r == addMessage(state, msg, now)
  IN  /\ state' = r.state
      /\ last' = Call("addMessage", msg, r.ret)
      /\ UNCHANGED <<now, hostOffset, watcher>>

AddMessages(msgs) ==
  LET r == addMessages(state, msgs, now)
  IN  /\ state' = r.state
      /\ last' = Call("addMessages", msgs, r.ret)
      /\ UNCHANGED <<now, hostOffset, watcher>>

AddRateLimitEvent(event) ==
  /\ Len(state.rateLimitEvents) < MaxRateLimitEvents
  /\ state' = addRateLimitEvent(state, event)
  /\ last' = Call("addRateLimitEvent", event, <<>>)
  /\ UNCHANGED <<now, hostOffset, watcher>>

PruneOldData(maxAgeMs) ==
  /\ state' = pruneOldData(state, maxAgeMs, now)
  /\ last' = Call("pruneOldData", maxAgeMs, <<>>)
  /\ UNCHANGED <<now, hostOffset, watcher>>

GetMessagesMTD ==
  /\ last' = Call("getMessagesMTD", <<>>, getMessagesMTD(state, now, hostOffset))
  /\ UNCHANGED <<state, now, hostOffset, watcher>>

GetMTDStats ==
  /\ last' = Call("getMTDStats", <<>>, getMTDStats(state, now, hostOffset))
  /\ UNCHANGED <<state, now, hostOffset, watcher>>

GetAllTimeStats ==
  /\ last' = Call("getAllTimeStats", <<>>, getAllTimeStats(state))
  /\ UNCHANGED <<state, now, hostOffset, watcher>>

GetProviderStatsMTD ==
  /\ last' = Call("getProviderStatsMTD", <<>>, getProviderStatsMTD(state, now, hostOffset))
  /\ UNCHANGED <<state, now, hostOffset, watcher>>

\* getProviderStatsAll sorting the array it was handed, which is the ledger
GetProviderStatsAllInPlace ==
  LET ByMessageCostDesc(a, b) == OrNum(b.cost, 0) - OrNum(a.cost, 0)
  IN  /\ last' = Call("getProviderStatsAll", <<>>, getProviderStatsAll(state, now))
      /\ state' = [state EXCEPT !.messages = StableSort(@, ByMessageCostDesc)]
      /\ UNCHANGED <<now, hostOffset, watcher>>

GetProviderStatsAll ==
  /\ last' = Call("getProviderStatsAll", <<>>, getProviderStatsAll(state, now))
  /\ UNCHANGED <<state, now, hostOffset, watcher>>

GetModelStatsMTD(sortMode) ==
  /\ last' = Call("getModelStatsMTD", sortMode, getModelStatsMTD(state, sortMode, now, hostOffset))
  /\ UNCHANGED <<state, now, hostOffset, watcher>>

GetModelStatsAll(sortMode) ==
  /\ last' = Call("getModelStatsAll", sortMode, getModelStatsAll(state, sortMode, now))
  /\ UNCHANGED <<state, now, hostOffset, watcher>>

\* Message ingestion and pruning
Next ==
  \/ Tick
  \/ \E msg \in MsgPool : AddMessage(msg)
  \/ \E msgs \in Batches : AddMessages(msgs)
  \/ \E maxAgeMs \in PruneAges : PruneOldData(maxAgeMs)

Spec == Init /\ [][Next]_vars

\* Rate-limit ingestion and pruning
NextRateLimits ==
  \/ Tick
  \/ \E event \in EventPool : AddRateLimitEvent(event)
  \/ \E maxAgeMs \in PruneAges : PruneOldData(maxAgeMs)

SpecRateLimits == Init /\ [][NextRateLimits]_vars

\* Message ingestion and the window statistics
NextStats ==
  \/ Tick
  \/ \E msg \in MsgPool : AddMessage(msg)
  \/ GetMessagesMTD
  \/ GetMTDStats
  \/ GetAllTimeStats

SpecStats == Init /\ [][NextStats]_vars

\* Messages, rate-limit events and the grouped statistics
NextHealth ==
  \/ Tick
  \/ \E msg \in HealthMsgPool : AddMessage(msg)
  \/ \E event \in EventPool : AddRateLimitEvent(event)
  \/ GetProviderStatsMTD
  \/ GetProviderStatsAll
  \/ \E sortMode \in SortModes : GetModelStatsMTD(sortMode)
  \/ \E sortMode \in SortModes : GetModelStatsAll(sortMode)

SpecHealth == Init /\ [][NextHealth]_vars

\* Messages, rate-limit events and pruning
NextPrune ==
  \/ Tick
  \/ \E msg \in PruneMsgPool : AddMessage(msg)
  \/ \E event \in PruneEventPool : AddRateLimitEvent(event)
  \/ \E maxAgeMs \in PruneAges : PruneOldData(maxAgeMs)

SpecPrune == Init /\ [][NextPrune]_vars

\* Messages of named and unnamed providers and models, and all six queries
NextGroups ==
  \/ Tick
  \/ \E msg \in GroupMsgPool : AddMessage(msg)
  \/ \E event \in GroupEventPool :
       Len(state.rateLimitEvents) < MaxBudgetEvents /\ AddRateLimitEvent(event)
  \/ GetMTDStats
  \/ GetAllTimeStats
  \/ GetProviderStatsMTD
  \/ GetProviderStatsAll
  \/ \E sortMode \in SortModes : GetModelStatsMTD(sortMode)
  \/ \E sortMode \in SortModes : GetModelStatsAll(sortMode)

SpecGroups == Init /\ [][NextGroups]_vars

\* Ingestion and pruning at clock values off the whole minute
InitSeries ==
  /\ now = At(3000)
  /\ hostOffset = 60
  /\ state = createInitialState(now)
  /\ last = Call("createInitialState", <<>>, <<>>)
  /\ watcher = NoWatcher

TickSeries ==
  /\ \E t \in SeriesClocks : TsGt(t, now) /\ now' = t
  /\ last' = Call("tick", <<>>, <<>>)
  /\ UNCHANGED <<state, hostOffset, watcher>>

NextSeries ==
  \/ TickSeries
  \/ \E msg \in SeriesMsgPool : AddMessage(msg)
  \/ \E maxAgeMs \in PruneAges : PruneOldData(maxAgeMs)

SpecSeries == InitSeries /\ [][NextSeries]_vars

\* Messages of distinct ids and rate-limit events, each ingested once, in
\* every order and interleaving, with the three all-time queries
InitOrder ==
  /\ now = At(26 * 60000)
  /\ hostOffset = 60
  /\ state = createInitialState(now)
  /\ last = Call("createInitialState", <<>>, <<>>)
  /\ watcher = NoWatcher

NextOrder ==
  \/ \E i \in 1..Len(OrderMsgSeq) : AddMessage(OrderMsgSeq[i])
  \/ \E i \in 1..Len(OrderEventSeq) :
       /\ \A k \in 1..Len(state.rateLimitEvents) : state.rateLimitEvents[k] # OrderEventSeq[i]
       /\ AddRateLimitEvent(OrderEventSeq[i])
  \/ GetAllTimeStats
  \/ GetProviderStatsAll
  \/ \E sortMode \in SortModes : GetModelStatsAll(sortMode)

SpecOrder == InitOrder /\ [][NextOrder]_vars

\* The calendar at clocks through the year, on hosts of several zones
InitCalendar ==
  /\ now \in CalendarClocks
  /\ hostOffset \in CalendarHostOffsets
  /\ state = createInitialState(now)
  /\ last = Call("createInitialState", <<>>, <<>>)
  /\ watcher = NoWatcher

TickCalendar ==
  /\ \E t \in CalendarClocks : TsGt(t, now) /\ now' = t
  /\ last' = Call("tick", <<>>, <<>>)
  /\ UNCHANGED <<state, hostOffset, watcher>>

GetMonthStartTimestamp ==
  /\ last' = Call("getMonthStartTimestamp", <<>>, getMonthStartTimestamp(now, hostOffset))
  /\ UNCHANGED <<state, now, hostOffset, watcher>>

\* the last step of getMonthStartTimestamp on the text the formatter gives
\* for a zone that is offsetMin minutes east of UTC
ReadShortOffset(offsetMin) ==
  LET parts == FormatDateParts(now)
      arg   == [year |-> parts.year, month |-> parts.month, offsetMin |-> offsetMin]
  IN  /\ last' = Call("utcMonthStart", arg,
                      utcMonthStart(parts.year, parts.month, FormatShortOffset(offsetMin)))
      /\ UNCHANGED <<state, now, hostOffset, watcher>>

NextCalendar ==
  \/ TickCalendar
  \/ GetMonthStartTimestamp
  \/ \E offsetMin \in ZoneOffsets : ReadShortOffset(offsetMin)

SpecCalendar == InitCalendar /\ [][NextCalendar]_vars

\* a part file has been read and parsed; nothing has looked at it yet
InitDetect ==
  /\ now \in ClockValues
  /\ hostOffset = 60
  /\ state = createInitialState(now)
  /\ \E part \in PartPool : last = Call("readPart", part, <<>>)
  /\ watcher = NoWatcher

IsRateLimitError ==
  /\ last.op = "readPart"
  /\ last' = Call("isRateLimitError", last.arg, isRateLimitError(last.arg))
  /\ UNCHANGED <<state, now, hostOffset, watcher>>

\* the event RateLimitWatcher.processNewFile builds from the part it has read
RateLimitEventOf ==
  /\ last.op = "readPart"
  /\ last' = Call("rateLimitEventOf", last.arg, rateLimitEventOf(last.arg, now))
  /\ UNCHANGED <<state, now, hostOffset, watcher>>

\* Classification of part records and provider inference
NextDetect ==
  \/ IsRateLimitError
  \/ RateLimitEventOf

SpecDetect == InitDetect /\ [][NextDetect]_vars

\* the watched directory as startLive may find it: empty; one complete
\* record written long ago; one file still being written next to a record
InitialDisks(kind, t) ==
  {[path \in Range(PathOrder) |-> None],
   [path \in Range(PathOrder) |->
      IF path = "f1" THEN File(Some(HitRecord(kind, path)), TsSub(t, Minutes(61)))
      ELSE None],
   [path \in Range(PathOrder) |->
      IF path = "f1" THEN File(None, t) ELSE File(Some(HitRecord(kind, path)), t)]}

\* startLive up to the construction of the poller
InitLive ==
  /\ now = At(30 * 60000)
  /\ hostOffset = 60
  /\ state = createInitialState(now)
  /\ last = Call("startLive", <<>>, <<>>)
  /\ \E kind \in WatcherKinds : \E disk \in InitialDisks(kind, now) :
       watcher = createWatcher(kind, disk)

\* another process creates a record file, or completes one it was writing
WriteFile(path, content) ==
  /\ IF watcher.disk[path] = None THEN TRUE
     ELSE watcher.disk[path][1].content = None /\ content # None
  /\ watcher' = [watcher EXCEPT !.disk[path] = File(content, now)]
  /\ last' = Call("writeFile", <<path>>, <<>>)
  /\ UNCHANGED <<state, now, hostOffset>>

\* loadAllMessages / loadRecentEvents and startLive's ingestion of the result
LoadAll ==
  /\ watcher.lifecycle = "new"
  /\ LET files   == ListDir(watcher.disk)
         results == [i \in 1..Len(files) |->
                       loadFile(watcher.kind, watcher.disk[files[i]], now)]
         loaded  == SelectSeq(results, LAMBDA r : r.outcome = "emitted")
         events  == [i \in 1..Len(loaded) |-> loaded[i].event[1]]
     IN  /\ state' = onInitialLoad(watcher.kind, state, events, now)
         /\ watcher' = [watcher EXCEPT
                          !.lifecycle = "loaded",
                          !.seenFiles = @ \cup Range(files),
                          !.log       = @ \o [i \in 1..Len(files) |->
                                               LogEntry(files[i], results[i].outcome, watcher)]]
         /\ last' = Call("loadAll", files, events)
  /\ UNCHANGED <<now, hostOffset>>

\* startWatching: startPolling sets the interval timer
StartWatching ==
  /\ watcher.lifecycle = "loaded"
  /\ watcher' = [watcher EXCEPT !.lifecycle = "polling"]
  /\ last' = Call("startWatching", <<>>, <<>>)
  /\ UNCHANGED <<state, now, hostOffset>>

\* the interval timer fires: poll() runs up to its first readdir
TimerFire ==
  /\ watcher.lifecycle = "polling"
  /\ Len(watcher.polls) < MaxPolls
  /\ watcher' = [watcher EXCEPT !.polls =
                   Append(@, [phase |-> "list", files |-> <<>>, path |-> None])]
  /\ last' = Call("poll", <<>>, <<>>)
  /\ UNCHANGED <<state, now, hostOffset>>

\* readdir resolves for poll i, which scans up to its first unseen file
Listed(i) ==
  /\ watcher.polls[i].phase = "list"
  /\ watcher' = ScanFiles(watcher, i, ListDir(watcher.disk))
  /\ last' = Call("readdir", <<>>, ListDir(watcher.disk))
  /\ UNCHANGED <<state, now, hostOffset>>

\* the settle delay of poll i is over: readFile is issued
SettleDone(i) ==
  /\ watcher.polls[i].phase = "settle"
  /\ watcher' = [watcher EXCEPT !.polls[i].phase = "read"]
  /\ last' = Call("setTimeout", watcher.polls[i].path, <<>>)
  /\ UNCHANGED <<state, now, hostOffset>>

\* ReadDone that forgets a file it could not read, so that a later poll
\* takes it up again
ReadDoneRetry(i) ==
  /\ watcher.polls[i].phase = "read"
  /\ LET path == watcher.polls[i].path[1]
         r    == processNewFile(watcher.kind, watcher.disk[path], now)
         w1   == [watcher EXCEPT
                    !.log       = Append(@, LogEntry(path, r.outcome, watcher)),
                    !.seenFiles = IF r.outcome = "failed" THEN @ \ {path} ELSE @]
     IN  /\ watcher' = ScanFiles(w1, i, watcher.polls[i].files)
         /\ state' = IF r.outcome = "emitted"
                     THEN onEvent(watcher.kind, state, r.event[1], now)
                     ELSE state
         /\ last' = Call("processNewFile", <<path>>, <<r.outcome>>)
  /\ UNCHANGED <<now, hostOffset>>

\* readFile settles for poll i: parse, emit to startLive's handler, and go
\* on with the files that remain
ReadDone(i) ==
  /\ watcher.polls[i].phase = "read"
  /\ LET path == watcher.polls[i].path[1]
         r    == processNewFile(watcher.kind, watcher.disk[path], now)
         w1   == [watcher EXCEPT !.log = Append(@, LogEntry(path, r.outcome, watcher))]
     IN  /\ watcher' = ScanFiles(w1, i, watcher.polls[i].files)
         /\ state' = IF r.outcome = "emitted"
                     THEN onEvent(watcher.kind, state, r.event[1], now)
                     ELSE state
         /\ last' = Call("processNewFile", <<path>>, <<r.outcome>>)
  /\ UNCHANGED <<now, hostOffset>>

\* stop(): clearInterval
Stop ==
  /\ watcher.lifecycle = "polling"
  /\ watcher' = [watcher EXCEPT !.lifecycle = "stopped"]
  /\ last' = Call("stop", <<>>, <<>>)
  /\ UNCHANGED <<state, now, hostOffset>>

\* One poller of either kind, its directory and startLive's handlers
NextLive ==
  \/ \E path \in Range(PathOrder) :
       \E content \in {None, Some(HitRecord(watcher.kind, path)),
                        Some(PlainRecord(watcher.kind))} : WriteFile(path, content)
  \/ LoadAll
  \/ StartWatching
  \/ TimerFire
  \/ \E i \in 1..Len(watcher.polls) : Listed(i)
  \/ \E i \in 1..Len(watcher.polls) : SettleDone(i)
  \/ \E i \in 1..Len(watcher.polls) : ReadDone(i)
  \/ Stop

SpecLive == InitLive /\ [][NextLive]_vars

\* startLive's MessageWatcher alone
InitMessageWatcher == InitLive /\ watcher.kind = "message"

\* the interval timer keeps firing while the poller is polling, and every
\* readdir, settle delay and readFile of a poll in flight settles
SpecMessageWatcherFair ==
  /\ InitMessageWatcher
  /\ [][NextLive]_vars
  /\ WF_vars(TimerFire)
  /\ \A i \in 1..MaxPolls :
       WF_vars(i <= Len(watcher.polls) /\ (Listed(i) \/ SettleDone(i) \/ ReadDone(i)))

\* startLive: the state after the budgets file has been loaded
InitBudgets ==
  /\ now \in ClockValues
  /\ hostOffset \in HostOffsets
  /\ \E budgets \in BudgetsPool :
       state = [createInitialState(now) EXCEPT !.budgets = budgets]
  /\ last = Call("loadBudgetsConfig", <<>>, <<>>)
  /\ watcher = NoWatcher

\* Provider statistics under a budgets configuration
NextBudgets ==
  \/ \E msg \in BudgetMsgPool : AddMessage(msg)
  \/ \E event \in BudgetEventPool :
       Len(state.rateLimitEvents) < MaxBudgetEvents /\ AddRateLimitEvent(event)
  \/ GetProviderStatsMTD
  \/ GetProviderStatsAll

SpecBudgets == InitBudgets /\ [][NextBudgets]_vars

\* The running application (startLive).  last.op names the handler that ran;
\* every handler but the clock ends with renderUI(ui, state), which writes
\* nothing to the state, so the screen it leaves is renderUI of the state
\* and clock of that moment.
InitUI ==
  /\ now = UIClocks[1]
  /\ hostOffset = 60
  /\ state = createInitialState(now)
  /\ last = Call("startLive", <<>>, <<>>)
  /\ watcher = NoWatcher

\* wall-clock time passes
TickUI ==
  /\ \E i \in 1..Len(UIClocks) : TsGt(UIClocks[i], now) /\ now' = UIClocks[i]
  /\ last' = Call("tick", <<>>, <<>>)
  /\ UNCHANGED <<state, hostOffset, watcher>>

\* messageWatcher.on("message")
OnMessage(msg) ==
  /\ state' = addMessages(state, <<msg>>, now).state
  /\ last' = Call("message", msg, <<>>)
  /\ UNCHANGED <<now, hostOffset, watcher>>

\* rateLimitWatcher.on("rateLimit")
OnRateLimit(event) ==
  /\ Len(state.rateLimitEvents) < MaxRateLimitEvents
  /\ state' = addRateLimitEvent(state, event)
  /\ last' = Call("rateLimit", event, <<>>)
  /\ UNCHANGED <<now, hostOffset, watcher>>

\* the interval's callback pruning without rendering
refreshIntervalPruneOnly(s, t) ==
  [state |-> pruneOldData(s, DEFAULT_MAX_AGE_MS, t),
   last  |-> Call("pruneOldData", DEFAULT_MAX_AGE_MS, <<>>)]

\* setInterval(() => { pruneOldData(state); renderUI(ui, state); }, 10000)
refreshInterval(s, t) ==
  [state |-> pruneOldData(s, DEFAULT_MAX_AGE_MS, t),
   last  |-> Call("refreshInterval", <<>>, <<>>)]

RefreshInterval ==
  /\ state' = refreshInterval(state, now).state
  /\ last' = refreshInterval(state, now).last
  /\ UNCHANGED <<now, hostOffset, watcher>>

\* key "r": the onRefresh callback of startLive
KeyR ==
  /\ state' = pruneOldData(state, DEFAULT_MAX_AGE_MS, now)
  /\ last' = Call("key r", <<>>, <<>>)
  /\ UNCHANGED <<now, hostOffset, watcher>>

KeyA ==
  /\ state' = [state EXCEPT !.viewMode = toggleViewMode(@)]
  /\ last' = Call("key a", <<>>, <<>>)
  /\ UNCHANGED <<now, hostOffset, watcher>>

KeyC ==
  /\ state' = [state EXCEPT !.sortMode = nextSortMode(@)]
  /\ last' = Call("key c", <<>>, <<>>)
  /\ UNCHANGED <<now, hostOffset, watcher>>

NextUI ==
  \/ TickUI
  \/ \E msg \in UIMsgPool : OnMessage(msg)
  \/ \E event \in UIEventPool : OnRateLimit(event)
  \/ RefreshInterval
  \/ KeyR
  \/ KeyA
  \/ KeyC

SpecUI == InitUI /\ [][NextUI]_vars

\* the clock runs and the interval keeps firing
SpecUIFair == SpecUI /\ WF_vars(TickUI) /\ WF_vars(RefreshInterval)

\* The dashboard statement by statement: every callback of startLive changes
\* the state and then renders it; last holds the statement run last
HandlerOps ==
  {"initial load", "on message", "on rateLimit", "refreshInterval", "key r", "key a", "key c"}

\* a callback is taken up whenever the listeners are attached
HandlerMayRunAnytime == last.op # "startLive"

\* a callback is taken up when the one before it has returned, that is after
\* its renderUI: no callback of startLive awaits anything
HandlerMayRun == last.op = "renderUI"

InitDashboard ==
  /\ now = UIClocks[1]
  /\ hostOffset = 60
  /\ state = createInitialState(now)
  /\ last = Call("startLive", <<>>, <<>>)
  /\ watcher = NoWatcher

\* wall-clock time passes, also between two statements
TickDashboard ==
  /\ \E i \in 1..Len(UIClocks) : TsGt(UIClocks[i], now) /\ now' = UIClocks[i]
  /\ UNCHANGED <<state, hostOffset, last, watcher>>

\* addMessages(state, initialMessages) and addRateLimitEvent for each initial
\* event, after both loads have resolved
InitialLoad(msgs, events) ==
  /\ last.op = "startLive"
  /\ state' = onInitialLoad("rateLimit", onInitialLoad("message", state, msgs, now), events, now)
  /\ last' = Call("initial load", <<>>, <<>>)
  /\ UNCHANGED <<now, hostOffset, watcher>>

\* what renderUI puts on the screen, as far as the figures of all time and
\* the two modes go
Rendering(s) == [viewMode |-> s.viewMode, sortMode |-> s.sortMode, allTime |-> getAllTimeStats(s)]

\* renderUI(ui, state), the statement that ends every callback
RenderUI ==
  /\ last.op \in HandlerOps
  /\ last' = Call("renderUI", <<>>, Rendering(state))
  /\ UNCHANGED <<state, now, hostOffset, watcher>>

MessageEvent(msg) ==
  /\ HandlerMayRun
  /\ state' = addMessages(state, <<msg>>, now).state
  /\ last' = Call("on message", <<>>, <<>>)
  /\ UNCHANGED <<now, hostOffset, watcher>>

RateLimitArrives(event) ==
  /\ HandlerMayRun
  /\ Len(state.rateLimitEvents) < MaxRateLimitEvents
  /\ state' = addRateLimitEvent(state, event)
  /\ last' = Call("on rateLimit", <<>>, <<>>)
  /\ UNCHANGED <<now, hostOffset, watcher>>

\* the interval callback: pruneOldData(state) with the default maximum age
RefreshTick ==
  /\ HandlerMayRun
  /\ state' = pruneOldData(state, DEFAULT_MAX_AGE_MS, now)
  /\ last' = Call("refreshInterval", <<>>, <<>>)
  /\ UNCHANGED <<now, hostOffset, watcher>>

\* keys "r", "a" and "c"
KeyPressed(key) ==
  /\ HandlerMayRun
  /\ state' = CASE key = "r" -> pruneOldData(state, DEFAULT_MAX_AGE_MS, now)
                [] key = "a" -> [state EXCEPT !.viewMode = toggleViewMode(@)]
                [] key = "c" -> [state EXCEPT !.sortMode = nextSortMode(@)]
  /\ last' = Call("key " \o key, <<>>, <<>>)
  /\ UNCHANGED <<now, hostOffset, watcher>>

NextDashboard ==
  \/ TickDashboard
  \/ \E msgs \in StoredMessages : \E events \in StoredEvents : InitialLoad(msgs, events)
  \/ RenderUI
  \/ \E msg \in UIMsgPool : MessageEvent(msg)
  \/ \E event \in UIEventPool : RateLimitArrives(event)
  \/ RefreshTick
  \/ \E key \in {"r", "a", "c"} : KeyPressed(key)

SpecDashboard == InitDashboard /\ [][NextDashboard]_vars

----------------------------------------------------------------------------
(* Properties *)

LedgerIds(s) == {s.messages[i].id : i \in 1..Len(s.messages)}

\* C1: under any sequence of addMessage, addMessages and pruneOldData the
\* message ledger never holds two entries with the same id.
C1_NoDuplicateIds ==
  \A i, j \in 1..Len(state.messages) :
    state.messages[i].id = state.messages[j].id => i = j

\* a duplicate was offered to a ledger of two or more entries
C1_Witness ==
  /\ last.op = "addMessage"
  /\ last.ret = FALSE
  /\ Len(state.messages) >= 2

\* C2: addMessage with an id already in the identity index returns false and
\* leaves the whole LiveState unchanged, also when the record offered differs
\* from the one held; with a new id it returns true and the ledger grows by
\* one, so adding the same message twice grows the ledger by exactly 1.
C2_DuplicateIsNoOp ==
  [][last'.op = "addMessage" =>
       IF last'.arg.id \in DOMAIN state.messageIndex
       THEN last'.ret = FALSE /\ state' = state
       ELSE /\ last'.ret = TRUE
            /\ Len(state'.messages) = Len(state.messages) + 1
            /\ last'.arg.id \in DOMAIN state'.messageIndex]_vars

\* a record was offered under an id held with different content
C2_Witness ==
  /\ last.op = "addMessage"
  /\ last.ret = FALSE
  /\ last.arg.id \in DOMAIN state.messageIndex
  /\ state.messageIndex[last.arg.id] # last.arg

Sorted(seq, Cmp(_, _)) == \A i \in 1..(Len(seq) - 1) : Cmp(seq[i], seq[i + 1]) <= 0

\* C3: with messages arriving in arbitrary timestamp order, the message ledger
\* is sorted ascending by creation time in every state between two operations.
C3_LedgerSorted == Sorted(state.messages, ByCreated)

\* the message added last was created before one that was already held
C3_Witness ==
  /\ last.op = "addMessage"
  /\ last.ret = TRUE
  /\ Len(state.messages) >= 3
  /\ state.messages[1] = last.arg
  /\ TsLt(last.arg.time.created, state.messages[2].time.created)

FirstWithId(msgs, id) ==
  msgs[CHOOSE i \in 1..Len(msgs) :
         msgs[i].id = id /\ \A j \in 1..(i - 1) : msgs[j].id # id]

\* C4: addMessages returns the number of elements whose id was neither in the
\* identity index before the call nor earlier in the list, the ledger grows by
\* exactly that number, and each element is committed on its own: every new id
\* is held with the first record of the list that carries it, whatever else
\* the list holds.
C4_AddMessagesCount ==
  [][last'.op = "addMessages" =>
       LET msgs   == last'.arg
           before == DOMAIN state.messageIndex
           fresh  == {msgs[i].id : i \in 1..Len(msgs)} \ before
       IN  /\ last'.ret = Cardinality(fresh)
           /\ Len(state'.messages) = Len(state.messages) + Cardinality(fresh)
           /\ LedgerIds(state') = LedgerIds(state) \cup fresh
           /\ \A id \in fresh : state'.messageIndex[id] = FirstWithId(msgs, id)
           /\ \A id \in before : state'.messageIndex[id] = state.messageIndex[id]]_vars

\* a list of two of which exactly one was added
C4_Witness ==
  /\ last.op = "addMessages"
  /\ Len(last.arg) = 2
  /\ last.ret = 1

\* C5: every addRateLimitEvent grows the rate-limit ledger by exactly one
\* entry, also when an event with the same partID, provider and timestamp is
\* already held, and leaves the ledger sorted ascending by timestamp.
C5_RateLimitAppend ==
  [][last'.op = "addRateLimitEvent" =>
       /\ Len(state'.rateLimitEvents) = Len(state.rateLimitEvents) + 1
       /\ \E i \in 1..Len(state'.rateLimitEvents) : state'.rateLimitEvents[i] = last'.arg
       /\ Sorted(state'.rateLimitEvents, ByTimestamp)]_vars

\* the event added last is held twice
C5_Witness ==
  /\ last.op = "addRateLimitEvent"
  /\ Cardinality({i \in 1..Len(state.rateLimitEvents) :
                    state.rateLimitEvents[i] = last.arg}) >= 2

RECURSIVE SumSeq(_)
SumSeq(nums) == IF nums = <<>> THEN 0 ELSE Head(nums) + SumSeq(Tail(nums))

\* the entries of seq at the positions in idx, in order
SubSeqAt(seq, idx) ==
  LET F[i \in 0..Len(seq)] ==
        IF i = 0 THEN <<>>
        ELSE IF i \in idx THEN Append(F[i - 1], seq[i]) ELSE F[i - 1]
  IN  F[Len(seq)]

HasTokens(m) == m.tokens # None

InputOf(m) == m.tokens[1].input

OutputOf(m) == m.tokens[1].output

ReasoningOf(m) == m.tokens[1].reasoning

CostOf(m) == IF m.cost = None THEN 0 ELSE m.cost[1]

SumsOver(r, subset) ==
  LET counted == SelectSeq(subset, HasTokens)
  IN  /\ r.totalInput = SumSeq(Map(counted, InputOf))
      /\ r.totalOutput = SumSeq(Map(counted, OutputOf))
      /\ r.totalReasoning = SumSeq(Map(counted, ReasoningOf))
      /\ r.totalCost = SumSeq(Map(counted, CostOf))
      /\ r.messageCount = Len(counted)
      /\ r.totalTokens = r.totalInput + r.totalOutput + r.totalReasoning

\* C6: for every subset of the ledger, computeWindowStats returns totalTokens
\* equal to totalInput + totalOutput + totalReasoning, every sum and
\* messageCount ranging only over the messages with token data; so do the
\* results of getMTDStats and getAllTimeStats.
C6_SumInvariant ==
  /\ \A idx \in SUBSET (1..Len(state.messages)) :
       LET subset == SubSeqAt(state.messages, idx)
       IN  SumsOver(computeWindowStats(subset), subset)
  /\ last.op = "getAllTimeStats" => SumsOver(last.ret, state.messages)
  /\ last.op = "getMTDStats" =>
       last.ret.totalTokens = last.ret.totalInput + last.ret.totalOutput + last.ret.totalReasoning

\* statistics taken over a ledger that holds a message without token data and
\* one with reasoning tokens
C6_Witness ==
  /\ last.op = "getAllTimeStats"
  /\ last.ret.messageCount >= 1
  /\ last.ret.messageCount < Len(state.messages)
  /\ last.ret.totalReasoning > 0

\* the month start the calendar must give for the clock values of the model:
\* 1 April 2026 00:00 CEST from then on, 1 March 2026 00:00 CET before
ExpectedMonthStart == IF TsGeq(now, M0) THEN M0 ELSE DateUTC(2026, 2, 28, 23)

InSeq(x, seq) == \E i \in 1..Len(seq) : seq[i] = x

\* C7: a message created exactly at monthStart() belongs to the month-to-date
\* subset, and a message created one millisecond earlier does not.
C7_MonthBoundary ==
  last.op = "getMessagesMTD" =>
    \A i \in 1..Len(state.messages) :
      LET m == state.messages[i]
      IN  /\ m.time.created = ExpectedMonthStart => InSeq(m, last.ret)
          /\ m.time.created = TsSub(ExpectedMonthStart, Ms(1)) => ~InSeq(m, last.ret)

\* the subset was taken of a ledger holding a message at the month start and
\* one a millisecond before it
C7_Witness ==
  /\ last.op = "getMessagesMTD"
  /\ \E i \in 1..Len(state.messages) : state.messages[i].time.created = ExpectedMonthStart
  /\ \E i \in 1..Len(state.messages) :
       state.messages[i].time.created = TsSub(ExpectedMonthStart, Ms(1))

CreatedFromMonthStart(m) == TsGeq(m.time.created, ExpectedMonthStart)

ScenarioLedger ==
  /\ TsGeq(now, M0)
  /\ Len(state.messages) = 2
  /\ \E i \in 1..2 :
       /\ state.messages[i].time.created = TsAdd(ExpectedMonthStart, Ms(1000))
       /\ state.messages[i].tokens = MessageTokens(10, 20, 0)
  /\ \E i \in 1..2 :
       /\ state.messages[i].time.created = TsSub(ExpectedMonthStart, Ms(1000))
       /\ state.messages[i].tokens = MessageTokens(5, 5, 0)

\* C8: getMTDStats equals computeWindowStats over exactly the ledger messages
\* created at or after monthStart(), getAllTimeStats equals computeWindowStats
\* over the full ledger; with one message 1 s after the month start (10 input,
\* 20 output) and one 1 s before it (5 input, 5 output), month-to-date shows
\* totalTokens 30 and messageCount 1, all-time totalTokens 40 and messageCount 2.
C8_CanonicalSubsets ==
  /\ last.op = "getMTDStats" =>
       /\ SumsOver(last.ret, SelectSeq(state.messages, CreatedFromMonthStart))
       /\ ScenarioLedger => last.ret.totalTokens = 30 /\ last.ret.messageCount = 1
  /\ last.op = "getAllTimeStats" =>
       /\ SumsOver(last.ret, state.messages)
       /\ ScenarioLedger => last.ret.totalTokens = 40 /\ last.ret.messageCount = 2

\* month-to-date statistics of the scenario ledger
C8_Witness ==
  /\ last.op = "getMTDStats"
  /\ ScenarioLedger

\* the number of rate-limit events of a provider stamped now - 5 minutes or later
RecentCount(providerID) ==
  Cardinality({i \in 1..Len(state.rateLimitEvents) :
                 /\ state.rateLimitEvents[i].providerID = providerID
                 /\ TsGeq(TsAdd(state.rateLimitEvents[i].timestamp, Minutes(5)), now)})

IsProviderQuery == last.op \in {"getProviderStatsMTD", "getProviderStatsAll"}

IsModelQuery == last.op \in {"getModelStatsMTD", "getModelStatsAll"}

StatusOf(results, key) ==
  {results[i].health.status : i \in {j \in 1..Len(results) : results[j].providerID = key}}

\* C9: in provider statistics a provider is throttled when it has 3 or more
\* rate-limit events with timestamp >= now - 5 minutes, warn when it has 1 or
\* 2, and ok when it has none.
C9_ProviderHealth ==
  IsProviderQuery =>
    \A i \in 1..Len(last.ret) :
      LET entry == last.ret[i]
          n     == RecentCount(entry.providerID)
      IN  /\ entry.health.rateLimitCount5m = n
          /\ entry.health.status =
               IF n >= 3 THEN "throttled" ELSE IF n >= 1 THEN "warn" ELSE "ok"

\* three recent events for openai and none for anthropic: openai is listed
\* throttled, anthropic ok
C9_Witness ==
  /\ IsProviderQuery
  /\ RecentCount("openai") = 3
  /\ RecentCount("anthropic") = 0
  /\ StatusOf(last.ret, "openai") = {"throttled"}
  /\ StatusOf(last.ret, "anthropic") = {"ok"}

\* C10: a model is error whenever its provider has 3 or more rate-limit events
\* in the trailing 5 minutes, however recently the model was seen; otherwise it
\* is stale when now - lastSeen is strictly greater than 30 minutes and active
\* otherwise.
C10_ModelHealth ==
  IsModelQuery =>
    \A i \in 1..Len(last.ret) :
      LET entry == last.ret[i]
      IN  entry.health.status =
            IF RecentCount(entry.providerID) >= 3 THEN "error"
            ELSE IF TsGt(now, TsAdd(entry.lastSeen, Minutes(30))) THEN "stale"
            ELSE "active"

\* one model last seen 31 minutes ago is stale beside one seen 29 minutes ago
\* that is active
C10_Witness ==
  /\ IsModelQuery
  /\ \E i \in 1..Len(last.ret) :
       /\ last.ret[i].lastSeen = TsSub(now, Minutes(31))
       /\ last.ret[i].health.status = "stale"
  /\ \E i \in 1..Len(last.ret) :
       /\ last.ret[i].lastSeen = TsSub(now, Minutes(29))
       /\ last.ret[i].health.status = "active"

\* the fraction p is the number a / b * 100
IsQuotientTimes100(p, a, b) == p.den # 0 /\ p.num * b = a * 100 * p.den

\* the ceilings configured for a provider in budgets.json
ConfiguredBudgets(providerID) ==
  {state.budgets[k].value : k \in {j \in 1..Len(state.budgets) :
                                     state.budgets[j].key = providerID}}

\* C11 as stated: for every provider with a configured monthly cost ceiling
\* budgetCostPercent is totalCost / ceiling * 100, for every provider with a
\* configured monthly token ceiling budgetPercent is totalTokens / ceiling *
\* 100, and both are present when both ceilings are configured.
C11_AsStated ==
  IsProviderQuery =>
    \A i \in 1..Len(last.ret) :
      \A budget \in ConfiguredBudgets(last.ret[i].providerID) :
        /\ budget.monthlyCost # None =>
             /\ last.ret[i].budgetCostPercent # None
             /\ IsQuotientTimes100(last.ret[i].budgetCostPercent[1],
                                   last.ret[i].totalCost, budget.monthlyCost[1])
        /\ budget.monthlyTokens # None =>
             /\ last.ret[i].budgetPercent # None
             /\ IsQuotientTimes100(last.ret[i].budgetPercent[1],
                                   last.ret[i].totalTokens, budget.monthlyTokens[1])

\* C11: for every provider with a configured monthly cost ceiling other than
\* 0, budgetCostPercent is totalCost / ceiling * 100, and for every provider
\* with a configured monthly token ceiling other than 0, budgetPercent is
\* totalTokens / ceiling * 100, each independently of the other; a ceiling
\* of 0 counts as not configured and its percentage is absent.
C11_BudgetPercent ==
  IsProviderQuery =>
    \A i \in 1..Len(last.ret) :
      \A budget \in ConfiguredBudgets(last.ret[i].providerID) :
        /\ IF budget.monthlyCost \in {None, Some(0)}
           THEN last.ret[i].budgetCostPercent = None
           ELSE /\ last.ret[i].budgetCostPercent # None
                /\ IsQuotientTimes100(last.ret[i].budgetCostPercent[1],
                                      last.ret[i].totalCost, budget.monthlyCost[1])
        /\ IF budget.monthlyTokens \in {None, Some(0)}
           THEN last.ret[i].budgetPercent = None
           ELSE /\ last.ret[i].budgetPercent # None
                /\ IsQuotientTimes100(last.ret[i].budgetPercent[1],
                                      last.ret[i].totalTokens, budget.monthlyTokens[1])

\* monthlyCost 100 with total cost 25 gives 25, next to tokens 30 of 60
C11_Witness ==
  /\ IsProviderQuery
  /\ \E i \in 1..Len(last.ret) :
       /\ last.ret[i].providerID = "openai"
       /\ ProviderBudget(Some(60), Some(100)) \in ConfiguredBudgets("openai")
       /\ last.ret[i].totalCost = 25
       /\ last.ret[i].budgetCostPercent # None
       /\ last.ret[i].budgetCostPercent[1].num = 25 * last.ret[i].budgetCostPercent[1].den
       /\ last.ret[i].budgetPercent # None
       /\ last.ret[i].budgetPercent[1].num = 50 * last.ret[i].budgetPercent[1].den

\* a provider whose cost ceiling is configured as 0 has no budgetCostPercent
C11_ZeroCeiling ==
  /\ IsProviderQuery
  /\ \E i \in 1..Len(last.ret) :
       /\ ProviderBudget(Some(0), Some(0)) \in ConfiguredBudgets(last.ret[i].providerID)
       /\ last.ret[i].budgetCostPercent = None

\* the message subset a statistics query was computed over
QuerySubset ==
  IF last.op \in {"getProviderStatsMTD", "getModelStatsMTD"}
  THEN SelectSeq(state.messages, CreatedFromMonthStart)
  ELSE state.messages

MessageProviders(subset) ==
  {IF subset[i].providerID = None THEN "unknown" ELSE subset[i].providerID[1] :
     i \in 1..Len(subset)}

RecentEventProviders ==
  {state.rateLimitEvents[i].providerID :
     i \in {j \in 1..Len(state.rateLimitEvents) :
              TsGeq(TsAdd(state.rateLimitEvents[j].timestamp, Minutes(5)), now)}}

BudgetProviders == {state.budgets[k].key : k \in 1..Len(state.budgets)}

\* C12: the provider statistics list has exactly one entry for each provider
\* key in the union of the providers of the subset's messages, the providers
\* of rate-limit events of the trailing 5 minutes and the providers of the
\* budgets configuration; a provider without traffic has zero totals.
C12_ProviderUnion ==
  IsProviderQuery =>
    LET keys == MessageProviders(QuerySubset) \cup RecentEventProviders
                  \cup BudgetProviders
    IN  /\ {last.ret[i].providerID : i \in 1..Len(last.ret)} = keys
        /\ Len(last.ret) = Cardinality(keys)
        /\ \A i \in 1..Len(last.ret) :
             last.ret[i].providerID \notin MessageProviders(QuerySubset) =>
               /\ last.ret[i].totalTokens = 0
               /\ last.ret[i].totalCost = 0
               /\ last.ret[i].messageCount = 0

\* one provider known from a budget alone, one from a recent rate-limit
\* event alone, one from a message alone; a provider whose only message lies
\* outside the subset and one whose only event is too old are left out
C12_Witness ==
  /\ last.op = "getProviderStatsMTD"
  /\ MessageProviders(state.messages) = {"openai", "unknown", "anthropic"}
  /\ BudgetProviders = {"openai", "google"}
  /\ {state.rateLimitEvents[i].providerID : i \in 1..Len(state.rateLimitEvents)}
       = {"openai", "mistral"}
  /\ {last.ret[i].providerID : i \in 1..Len(last.ret)}
       = {"openai", "unknown", "google", "mistral"}
  /\ \E i \in 1..Len(last.ret) :
       /\ last.ret[i].providerID = "google"
       /\ last.ret[i].totalTokens = 0
       /\ last.ret[i].messageCount = 0

\* the positions of seq whose instant is no older than maxAgeMs at time t
PositionsInAge(seq, Instant(_), maxAgeMs, t) ==
  {i \in 1..Len(seq) : TsGeq(TsAdd(Instant(seq[i]), maxAgeMs), t)}

CreatedOf(m) == m.time.created

TimestampOf(e) == e.timestamp

\* C13: after pruneOldData(maxAge) the message ledger, the rate-limit ledger
\* and the time series hold exactly the entries they held before whose
\* timestamp is >= now - maxAge, in the same relative order, and nothing else.
C13_PruneKeepsRecent ==
  [][last'.op = "pruneOldData" =>
       /\ state'.messages =
            SubSeqAt(state.messages,
                     PositionsInAge(state.messages, CreatedOf, last'.arg, now))
       /\ state'.rateLimitEvents =
            SubSeqAt(state.rateLimitEvents,
                     PositionsInAge(state.rateLimitEvents, TimestampOf, last'.arg, now))
       /\ state'.timeSeries =
            SubSeqAt(state.timeSeries,
                     PositionsInAge(state.timeSeries, TimestampOf, last'.arg, now))]_vars

\* a prune has just kept a message and a time-series point lying exactly on
\* the cutoff, next to another message and some rate-limit events
C13_Witness ==
  /\ last.op = "pruneOldData"
  /\ state.rateLimitEvents # <<>>
  /\ \E i \in 1..Len(state.messages) :
       TsAdd(state.messages[i].time.created, last.arg) = now
  /\ \E i \in 1..Len(state.timeSeries) :
       TsAdd(state.timeSeries[i].timestamp, last.arg) = now
  /\ Len(state.messages) >= 2

\* C14: pruneOldData is idempotent: in the state a pruneOldData(maxAge) has
\* left, a second pruneOldData(maxAge) at the same clock value changes neither
\* the message ledger, the identity index, the rate-limit ledger nor the time
\* series.
C14_PruneIdempotent ==
  last.op = "pruneOldData" =>
    LET twice == pruneOldData(state, last.arg, now)
    IN  /\ twice.messages = state.messages
        /\ twice.messageIndex = state.messageIndex
        /\ twice.rateLimitEvents = state.rateLimitEvents
        /\ twice.timeSeries = state.timeSeries

\* a prune of 5 minutes has emptied the message ledger and the index and kept
\* two rate-limit events, one of them exactly on the cutoff
C14_Witness ==
  /\ last.op = "pruneOldData"
  /\ last.arg = FIVE_MINUTES_MS
  /\ state.messages = <<>>
  /\ DOMAIN state.messageIndex = {}
  /\ Len(state.rateLimitEvents) >= 2
  /\ TsAdd(state.rateLimitEvents[1].timestamp, last.arg) = now

\* the minuteStart values of the points of a time series
PointMinutes(series) == {series[i].timestamp : i \in 1..Len(series)}

OnePointPerMinute(series) ==
  \A i, j \in 1..Len(series) : series[i].timestamp = series[j].timestamp => i = j

\* the message just offered was accepted and carries token data
TokenMessageAdded(call) ==
  call.op = "addMessage" /\ call.ret = TRUE /\ call.arg.tokens # None

\* the start of the minute an instant lies in
MinuteStartOf(ts) == <<ts[1], 0>>

\* the minutes a call gives token data to
MinutesOpened(call) ==
  IF TokenMessageAdded(call) THEN {MinuteStartOf(call.arg.time.created)} ELSE {}

\* C15 as stated: the time series holds exactly one point for each distinct
\* minute that has ever received a message with token data: a point appears
\* with the first such message of its minute, no minute has two points, and a
\* minute that has a point never loses it.
C15_AsStated ==
  [][/\ OnePointPerMinute(state'.timeSeries)
     /\ PointMinutes(state.timeSeries) \subseteq PointMinutes(state'.timeSeries)
     /\ MinutesOpened(last') \subseteq PointMinutes(state'.timeSeries)
     /\ PointMinutes(state'.timeSeries) \ PointMinutes(state.timeSeries)
          \subseteq MinutesOpened(last')]_vars

\* C15: the time series never holds two points with the same minuteStart; a
\* point appears with the first message with token data of its minute and
\* only then; a minute keeps its point until a pruneOldData(maxAge) whose
\* cutoff now - maxAge lies after its minuteStart, which removes it.
C15_OnePointPerMinute ==
  [][/\ OnePointPerMinute(state'.timeSeries)
     /\ \A minute \in PointMinutes(state.timeSeries) :
          IF last'.op = "pruneOldData" /\ TsLt(TsAdd(minute, last'.arg), now)
          THEN minute \notin PointMinutes(state'.timeSeries)
          ELSE minute \in PointMinutes(state'.timeSeries)
     /\ MinutesOpened(last') \subseteq PointMinutes(state'.timeSeries)
     /\ PointMinutes(state'.timeSeries) \ PointMinutes(state.timeSeries)
          \subseteq MinutesOpened(last')]_vars

\* a second message of a minute was folded into the point of that minute,
\* next to the point of another minute
C15_Witness ==
  /\ TokenMessageAdded(last)
  /\ Len(state.timeSeries) = 2
  /\ \E i \in 1..Len(state.timeSeries) :
       /\ state.timeSeries[i].timestamp = MinuteStartOf(last.arg.time.created)
       /\ state.timeSeries[i].tokens > TokensOf(last.arg)

TotalOf(m) == InputOf(m) + OutputOf(m) + ReasoningOf(m)

\* the total tokens of the subset a query was computed over
SubsetTotalTokens == SumSeq(Map(SelectSeq(QuerySubset, HasTokens), TotalOf))

\* C16: in model statistics sharePercent of every model is 0 when the
\* subset's total tokens is 0, and otherwise the model's total tokens divided
\* by the subset's total tokens times 100.
C16_SharePercent ==
  IsModelQuery =>
    \A i \in 1..Len(last.ret) :
      LET share == last.ret[i].sharePercent
      IN  IF SubsetTotalTokens = 0
          THEN share.den # 0 /\ share.num = 0
          ELSE IsQuotientTimes100(share, last.ret[i].totalTokens, SubsetTotalTokens)

\* model statistics over a subset whose only message has no token data
C16_Witness ==
  /\ IsModelQuery
  /\ QuerySubset # <<>>
  /\ SubsetTotalTokens = 0
  /\ Len(last.ret) = 1
  /\ last.ret[1].sharePercent.num = 0

\* c and d are the same character up to letter case
SameLetter(c, d) ==
  \/ c = d
  \/ \E i \in 1..Len(UpperCaseLetters) :
       {c, d} = {SubSeq(UpperCaseLetters, i, i), SubSeq(LowerCaseLetters, i, i)}

\* word occurs in text, letter case ignored
OccursIgnoringCase(word, text) ==
  \E start \in 0..(Len(text) - Len(word)) :
    \A k \in 1..Len(word) :
      SameLetter(SubSeq(word, k, k), SubSeq(text, start + k, start + k))

TextOr(optional) == IF optional = None THEN "" ELSE optional[1]

\* the output and the error text of a part joined together
JoinedText(part) ==
  IF part.state = None THEN " "
  ELSE TextOr(part.state[1].output) \o " " \o TextOr(part.state[1].error)

RateLimitWords ==
  {"429", "too many requests", "rate limit", "throttl", "quota exceeded", "capacity"}

StatusIsFinal(part) ==
  part.state # None /\ part.state[1].status \in {Some("completed"), Some("error")}

\* C17: a part record is classified as a rate-limit incident if and only if
\* its status is exactly "completed" or "error" and its output and error text
\* joined together contains "429" or, in any letter case, one of "too many
\* requests", "rate limit", "throttl", "quota exceeded", "capacity"; a record
\* with another or no status is never classified.
C17_Classification ==
  last.op = "isRateLimitError" =>
    last.ret = (/\ StatusIsFinal(last.arg)
                /\ \E word \in RateLimitWords :
                     OccursIgnoringCase(word, JoinedText(last.arg)))

\* a completed record is classified through "rate limit", which only the
\* joined text contains: its output is "rate" and its error text "limit"
C17_Witness ==
  /\ last.op = "isRateLimitError"
  /\ last.ret = TRUE
  /\ last.arg.state[1].status = Some("completed")
  /\ last.arg.state[1].output = Some("rate")
  /\ last.arg.state[1].error = Some("limit")

\* the text detectProvider is given: the output, or the error without one
ErrorTextOf(part) ==
  IF TextOr(part.state[1].output) # "" THEN TextOr(part.state[1].output)
  ELSE TextOr(part.state[1].error)

ProviderWords(provider) ==
  CASE provider = "anthropic"  -> {"claude", "anthropic", "sonnet", "opus", "haiku"}
    [] provider = "openai"     -> {"openai", "gpt", "o1", "o3", "chatgpt"}
    [] provider = "google"     -> {"google", "gemini", "palm", "vertex"}
    [] provider = "openrouter" -> {"openrouter"}

ProviderOrder == <<"anthropic", "openai", "google", "openrouter">>

Hinted(provider, text) == \E word \in ProviderWords(provider) : OccursIgnoringCase(word, text)

\* C18: the provider of a rate-limit event is found by scanning keyword
\* hints, letter case ignored, over the error text followed by the tool name
\* if there is one; "unknown" when no provider is hinted at, and otherwise the
\* first hinted provider in the order anthropic, openai, google, openrouter.
C18_ProviderInference ==
  (last.op = "rateLimitEventOf" /\ last.ret # None) =>
    LET text   == ErrorTextOf(last.arg) \o TextOr(last.arg.tool)
        hinted == {k \in 1..Len(ProviderOrder) : Hinted(ProviderOrder[k], text)}
    IN  IF hinted = {} THEN last.ret[1].providerID = "unknown"
        ELSE \E k \in hinted :
               /\ \A j \in hinted : k <= j
               /\ last.ret[1].providerID = ProviderOrder[k]

\* an event whose error text hints at openrouter and google, with a tool
\* name hinting at google: google comes first in the order
C18_Witness ==
  /\ last.op = "rateLimitEventOf"
  /\ last.ret # None
  /\ last.arg.state[1].output \in {None, Some("")}
  /\ last.arg.state[1].error = Some("request THROTTLED by OpenRouter for gemini")
  /\ last.ret[1].providerID = "google"

\* C19: after stop() the poller's timer is cleared and the poller performs no
\* further callbacks: no poll starts, no "message" or "rateLimit" event is
\* emitted and the engine state no longer changes, also not through a poll
\* that was in flight when stop was called.
C19_NoEventAfterStop ==
  [][watcher.lifecycle = "stopped" =>
       /\ last'.op # "poll"
       /\ ~(last'.op = "processNewFile" /\ last'.ret = <<"emitted">>)
       /\ state' = state]_vars

\* the files a record can be parsed from
Parseable(disk, path) == disk[path] # None /\ disk[path][1].content # None

\* the polls in flight that have read the file at path
ReadersOf(w, path) ==
  {i \in 1..Len(w.polls) : w.polls[i].phase = "read" /\ w.polls[i].path = Some(path)}

\* poll i of w goes on in w2 with the first file of its list that w has not
\* seen, or has returned when there is none
GoesOn(w, w2, i) ==
  LET files  == w.polls[i].files
      unseen == {k \in 1..Len(files) : files[k] \notin w.seenFiles}
  IN  IF unseen = {} THEN Len(w2.polls) = Len(w.polls) - 1
      ELSE /\ Len(w2.polls) = Len(w.polls)
           /\ w2.polls[i].phase = "settle"
           /\ \E k \in unseen : /\ \A l \in unseen : k <= l
                                 /\ w2.polls[i].path = Some(files[k])
                                 /\ files[k] \in w2.seenFiles

\* the ids (message id or part id) of the records the engine holds
HeldIds(kind, s) ==
  IF kind = "message" THEN {s.messages[i].id : i \in 1..Len(s.messages)}
  ELSE {s.rateLimitEvents[i].partID : i \in 1..Len(s.rateLimitEvents)}

\* C20: a record file that is unreadable or unparseable when the poller reads
\* it produces no event and no error: in a poll the engine state is
\* unchanged and the poll goes on with the remaining files; at the initial
\* load the engine receives nothing from that file and the other files are
\* still loaded; the path stays recorded and is never read a second time.
C20_BadFileIsSkipped ==
  [][/\ (last'.op = "processNewFile" /\ ~Parseable(watcher.disk, last'.arg[1])) =>
          /\ last'.ret = <<"failed">>
          /\ state' = state
          /\ last'.arg[1] \in watcher'.seenFiles
          /\ \E i \in ReadersOf(watcher, last'.arg[1]) : GoesOn(watcher, watcher', i)
     /\ last'.op = "loadAll" =>
          /\ \A k \in 1..Len(last'.arg) :
               ~Parseable(watcher.disk, last'.arg[k]) =>
                 /\ last'.arg[k] \in watcher'.seenFiles
                 /\ watcher'.log[k].outcome = "failed"
          /\ Len(last'.ret) =
               Cardinality({k \in 1..Len(watcher'.log) : watcher'.log[k].outcome = "emitted"})
          /\ Cardinality(HeldIds(watcher.kind, state')) = Len(last'.ret)
     /\ \A a, b \in 1..Len(watcher'.log) :
          watcher'.log[a].path = watcher'.log[b].path => a = b]_vars

\* a poll could not read f1, which is recorded as seen, and now waits for f2
\* to settle; the engine holds nothing
C20_Witness ==
  /\ last.op = "processNewFile"
  /\ last.arg = <<"f1">>
  /\ last.ret = <<"failed">>
  /\ "f1" \in watcher.seenFiles
  /\ \E i \in 1..Len(watcher.polls) :
       watcher.polls[i].phase = "settle" /\ watcher.polls[i].path = Some("f2")
  /\ HeldIds(watcher.kind, state) = {}

QueryOps ==
  {"getMTDStats", "getAllTimeStats", "getProviderStatsMTD", "getProviderStatsAll",
   "getModelStatsMTD", "getModelStatsAll"}

\* C22: getMTDStats, getAllTimeStats, getProviderStatsMTD, getProviderStatsAll,
\* getModelStatsMTD and getModelStatsAll leave the message ledger (content
\* and order), the identity index, the rate-limit ledger, the time series,
\* the budgets and the preferences as they were, in every state.
C22_QueriesArePure ==
  [][last'.op \in QueryOps =>
       /\ state'.messages = state.messages
       /\ state'.messageIndex = state.messageIndex
       /\ state'.rateLimitEvents = state.rateLimitEvents
       /\ state'.timeSeries = state.timeSeries
       /\ state'.budgets = state.budgets
       /\ state'.limits = state.limits
       /\ state'.viewMode = state.viewMode
       /\ state'.sortMode = state.sortMode
       /\ state'.currentWindow = state.currentWindow]_vars

\* provider statistics were computed over a ledger whose cheapest message
\* comes first, so the list returned is ordered differently from the ledger,
\* with rate-limit events and time-series points present
C22_Witness ==
  /\ last.op = "getProviderStatsAll"
  /\ Len(state.messages) >= 3
  /\ state.rateLimitEvents # <<>>
  /\ Len(state.timeSeries) >= 2
  /\ Len(last.ret) >= 2
  /\ last.ret[1].providerID # ProviderKey(state.messages[1])

\* C30: the provider statistics list is sorted descending by total cost:
\* of every two adjacent entries the earlier one costs at least as much as
\* the later one.
C30_SortedByCost ==
  IsProviderQuery =>
    \A i \in 1..(Len(last.ret) - 1) : last.ret[i].totalCost >= last.ret[i + 1].totalCost

\* three providers of three different costs, listed in the reverse of the
\* order in which their first messages entered the ledger
C30_Witness ==
  /\ IsProviderQuery
  /\ Len(last.ret) = 3
  /\ last.ret[1].totalCost > last.ret[2].totalCost
  /\ last.ret[2].totalCost > last.ret[3].totalCost
  /\ ProviderKey(QuerySubset[1]) = last.ret[3].providerID
  /\ ProviderKey(QuerySubset[Len(QuerySubset)]) = last.ret[1].providerID

NoProvider(m) == m.providerID = None

NoModel(m) == m.modelID = None

FiledUnderUnknown(r) ==
  IF "providerID" \in DOMAIN r /\ "modelID" \notin DOMAIN r
  THEN r.providerID = "unknown"
  ELSE r.modelID = "unknown"

\* the entries of a provider or model statistics list filed under "unknown"
UnknownEntries(results) == SelectSeq(results, FiledUnderUnknown)

\* the list has one "unknown" entry and its sums are those of the messages
\* of group that carry token data, an absent cost counting 0
UnknownGroupCounts(results, group) ==
  group # <<>> =>
    /\ Len(UnknownEntries(results)) = 1
    /\ SumsOver(UnknownEntries(results)[1], group)

\* the same, with the cost of every message of group added up
UnknownGroupCountsEveryCost(results, group) ==
  group # <<>> =>
    /\ Len(UnknownEntries(results)) = 1
    /\ UnknownEntries(results)[1].totalCost = SumSeq(Map(group, CostOf))

\* C29: addMessage turns away a message with no provider id or no model id
\* only when its id is already in the ledger, and otherwise the ledger holds
\* it; provider statistics file the messages with no provider id under
\* "unknown" and model statistics the messages with no model id under
\* "unknown", and that entry's token sums, cost sum (an absent cost counting
\* 0) and message count are those of its messages that carry token data.
C29_UnknownGroups ==
  /\ (last.op = "addMessage" /\ (NoProvider(last.arg) \/ NoModel(last.arg))) =>
       IF last.ret
       THEN InSeq(last.arg, state.messages)
       ELSE \E i \in 1..Len(state.messages) : state.messages[i].id = last.arg.id
  /\ IsProviderQuery =>
       UnknownGroupCounts(last.ret, SelectSeq(QuerySubset, NoProvider))
  /\ IsModelQuery =>
       UnknownGroupCounts(last.ret, SelectSeq(QuerySubset, NoModel))

\* model statistics computed over a subset holding a message with no model
\* id and token data and another with no model id, no token data and a cost,
\* after provider-less messages were ingested as well
C29_Witness ==
  /\ IsModelQuery
  /\ \E i, j \in 1..Len(QuerySubset) :
       /\ NoModel(QuerySubset[i]) /\ HasTokens(QuerySubset[i])
       /\ NoModel(QuerySubset[j]) /\ ~HasTokens(QuerySubset[j]) /\ CostOf(QuerySubset[j]) > 0
  /\ \E i \in 1..Len(state.messages) :
       NoProvider(state.messages[i]) /\ HasTokens(state.messages[i])

\* C29 as worded: the cost of every message with no provider id or no model
\* id is counted in the "unknown" entry, whether it carries token data or not
C29_AsStated ==
  /\ IsProviderQuery =>
       UnknownGroupCountsEveryCost(last.ret, SelectSeq(QuerySubset, NoProvider))
  /\ IsModelQuery =>
       UnknownGroupCountsEveryCost(last.ret, SelectSeq(QuerySubset, NoModel))

\* the positions in subset of the messages of the model modelID
PositionsOfModel(subset, modelID) ==
  {i \in 1..Len(subset) :
     (IF subset[i].modelID = None THEN "unknown" ELSE subset[i].modelID[1]) = modelID}

\* C28: in model statistics each model's providerId is the provider of the
\* first message of that model in the ledger-ordered subset ("unknown" when
\* that message has no provider), and lastSeen is the greatest creation time
\* over all the model's messages in the subset, with or without token data.
C28_ModelProviderAndLastSeen ==
  IsModelQuery =>
    \A k \in 1..Len(last.ret) :
      LET entry == last.ret[k]
          idx   == PositionsOfModel(QuerySubset, entry.modelID)
          first == CHOOSE i \in idx : \A j \in idx : i <= j
      IN  /\ idx # {}
          /\ entry.providerID =
               (IF QuerySubset[first].providerID = None THEN "unknown"
                ELSE QuerySubset[first].providerID[1])
          /\ \E i \in idx : entry.lastSeen = QuerySubset[i].time.created
          /\ \A i \in idx : TsGeq(entry.lastSeen, QuerySubset[i].time.created)

\* model statistics in which one model's first message has no provider while
\* a later one has, and another model was last seen in a message without
\* token data, later than all its messages with token data
C28_Witness ==
  /\ IsModelQuery
  /\ \E k \in 1..Len(last.ret) :
       LET idx == PositionsOfModel(QuerySubset, last.ret[k].modelID)
       IN  /\ last.ret[k].providerID = "unknown"
           /\ \E i \in idx : QuerySubset[i].providerID # None
  /\ \E k \in 1..Len(last.ret) :
       LET idx == PositionsOfModel(QuerySubset, last.ret[k].modelID)
       IN  /\ \E i \in idx : HasTokens(QuerySubset[i])
           /\ \A i \in idx :
                HasTokens(QuerySubset[i]) => TsGt(last.ret[k].lastSeen, QuerySubset[i].time.created)

\* the provider statistics of the window a model query was computed over,
\* for the same state and clock
ProviderStatsBeside ==
  IF last.op = "getModelStatsMTD"
  THEN getProviderStatsMTD(state, now, hostOffset)
  ELSE getProviderStatsAll(state, now)

\* C27: the throttled providers used by model statistics are exactly the
\* providers with 3 or more rate-limit events of timestamp >= now - 5
\* minutes, and a model is error if and only if provider statistics, for the
\* same state and clock, classify its provider as throttled.
C27_ErrorAgreesWithProvider ==
  /\ ThrottledProviders(getRateLimitsInWindow(state, FIVE_MINUTES_MS, now)) =
       {state.rateLimitEvents[i].providerID : i \in
          {j \in 1..Len(state.rateLimitEvents) :
             RecentCount(state.rateLimitEvents[j].providerID) >= 3}}
  /\ IsModelQuery =>
       \A k \in 1..Len(last.ret) :
         LET entry == last.ret[k]
         IN  /\ entry.health.providerThrottled <=> RecentCount(entry.providerID) >= 3
             /\ entry.health.status = "error" <=>
                  StatusOf(ProviderStatsBeside, entry.providerID) = {"throttled"}

\* model statistics with one model in error, its provider having three
\* recent events, beside a model that is not and whose provider is ok
C27_Witness ==
  /\ IsModelQuery
  /\ \E j, k \in 1..Len(last.ret) :
       /\ last.ret[j].health.status = "error"
       /\ RecentCount(last.ret[j].providerID) = 3
       /\ last.ret[k].health.status # "error"
       /\ StatusOf(ProviderStatsBeside, last.ret[k].providerID) = {"ok"}

\* the ledger's messages with token data created in the minute starting at minute
TokenMessagesOfMinute(minute) ==
  SelectSeq(state.messages,
            LAMBDA m : HasTokens(m) /\ MinuteStartOf(m.time.created) = minute)

\* C25: after any sequence of addMessage calls without pruning, every
\* time-series point starts on a whole minute, its token sum is the sum of
\* input + output + reasoning and its cost sum the sum of cost (0 when
\* absent) over the ledger's messages with token data created in that
\* minute, every such minute has its point, and the time series is sorted
\* ascending by minute.
C25_TimeSeriesSums ==
  /\ \A i \in 1..Len(state.timeSeries) :
       LET point  == state.timeSeries[i]
           folded == TokenMessagesOfMinute(point.timestamp)
       IN  /\ point.timestamp[2] = 0
           /\ folded # <<>>
           /\ point.tokens = SumSeq(Map(folded, TotalOf))
           /\ point.cost = SumSeq(Map(folded, CostOf))
  /\ \A i \in 1..Len(state.messages) :
       HasTokens(state.messages[i]) =>
         MinuteStartOf(state.messages[i].time.created) \in PointMinutes(state.timeSeries)
  /\ \A i, j \in 1..Len(state.timeSeries) :
       i < j => TsLt(state.timeSeries[i].timestamp, state.timeSeries[j].timestamp)

\* a message just opened the earlier of two minutes, after the later one was
\* opened, and the later minute's point holds two messages, one of them
\* without a cost
C25_Witness ==
  /\ TokenMessageAdded(last)
  /\ Len(state.timeSeries) = 2
  /\ state.timeSeries[1].timestamp = MinuteStartOf(last.arg.time.created)
  /\ Len(TokenMessagesOfMinute(state.timeSeries[1].timestamp)) = 1
  /\ LET folded == TokenMessagesOfMinute(state.timeSeries[2].timestamp)
     IN  /\ Len(folded) = 2
         /\ \E k \in 1..2 : folded[k].cost = None
         /\ state.timeSeries[2].cost > 0

\* C26: addMessage of a message with a new id and no token data returns true
\* and the ledger and the identity index gain the message, while the time
\* series stays as it was and no field of the month-to-date or of the
\* all-time statistics changes, messageCount included.
C26_NoTokenMessage ==
  [][IF /\ last'.op = "addMessage"
        /\ last'.arg.tokens = None
        /\ last'.arg.id \notin DOMAIN state.messageIndex
     THEN /\ last'.ret = TRUE
          /\ Len(state'.messages) = Len(state.messages) + 1
          /\ InSeq(last'.arg, state'.messages)
          /\ DOMAIN state'.messageIndex = DOMAIN state.messageIndex \cup {last'.arg.id}
          /\ state'.messageIndex[last'.arg.id] = last'.arg
          /\ state'.timeSeries = state.timeSeries
          /\ getMTDStats(state', now', hostOffset') = getMTDStats(state, now, hostOffset)
          /\ getAllTimeStats(state') = getAllTimeStats(state)
     ELSE TRUE]_vars

\* a message with a cost and no token data, created in the current month,
\* was accepted into a ledger that already had statistics and a point
C26_Witness ==
  /\ last.op = "addMessage"
  /\ last.ret = TRUE
  /\ last.arg.tokens = None
  /\ CostOf(last.arg) > 0
  /\ InSeq(last.arg, getMessagesMTD(state, now, hostOffset))
  /\ getMTDStats(state, now, hostOffset).messageCount >= 1
  /\ state.timeSeries # <<>>

\* the civil date and minute of day that Europe/Bratislava shows at instant t
BratislavaLocal(t) ==
  LET local == t[1] + BratislavaOffsetMinutes(t)
  IN  [date |-> CivilFromDays(local \div 1440), minuteOfDay |-> local % 1440, ms |-> t[2]]

\* t is 00:00:00.000 on the 1st of a month in Europe/Bratislava
IsZoneMidnightOfFirst(t) ==
  /\ BratislavaLocal(t).date.day = 1
  /\ BratislavaLocal(t).minuteOfDay = 0
  /\ BratislavaLocal(t).ms = 0

\* UTC midnight of the 1st of the month of call.arg minus the offset read
OffsetAppliedExactly(call) ==
  call.ret = <<DaysFromCivil(call.arg.year, call.arg.month, 1) * 1440 - call.arg.offsetMin, 0>>

WholeHours(offsetMin) == offsetMin % 60 = 0

EngineData(s) ==
  <<s.messages, s.messageIndex, s.rateLimitEvents, s.timeSeries, s.budgets, s.limits>>

\* cost -> tokens -> name -> cost
SortModeAfter(sortMode) ==
  CASE sortMode = "cost"   -> "tokens"
    [] sortMode = "tokens" -> "name"
    [] sortMode = "name"   -> "cost"

\* C23: key "a" flips viewMode between "mtd" and "all" and key "c" moves
\* sortMode one step along cost -> tokens -> name -> cost, so that three
\* presses return to the start; each changes nothing else of the state, and
\* the render that ends a handler changes nothing at all: after a message
\* or a rate-limit event the state is as ingestion left it, and after the
\* interval or key "r" as pruning left it.
C23_RendererToggles ==
  [][CASE last'.op = "key a" ->
            /\ state'.viewMode # state.viewMode
            /\ {state.viewMode, state'.viewMode} = {"mtd", "all"}
            /\ state' = [state EXCEPT !.viewMode = state'.viewMode]
       [] last'.op = "key c" ->
            /\ state'.sortMode = SortModeAfter(state.sortMode)
            /\ SortModeAfter(SortModeAfter(state'.sortMode)) = state.sortMode
            /\ state' = [state EXCEPT !.sortMode = state'.sortMode]
       [] last'.op = "message" ->
            state' = addMessages(state, <<last'.arg>>, now).state
       [] last'.op = "rateLimit" ->
            state' = addRateLimitEvent(state, last'.arg)
       [] last'.op \in {"refreshInterval", "key r"} ->
            /\ state' = pruneOldData(state, DEFAULT_MAX_AGE_MS, now)
            /\ <<state'.viewMode, state'.sortMode>> = <<state.viewMode, state.sortMode>>
       [] OTHER -> state' = state]_vars

\* the third press of key "c" brought the sort mode back to cost, in the
\* all-time view, over ledgers and a time series that are not empty
C23_Witness ==
  /\ last.op = "key c"
  /\ state.sortMode = "cost"
  /\ state.viewMode = "all"
  /\ renderUI(state, now, hostOffset).sortMode = "cost"
  /\ renderUI(state, now, hostOffset).viewMode = "all"
  /\ Len(state.messages) >= 2
  /\ state.rateLimitEvents # <<>>
  /\ state.timeSeries # <<>>

\* the handlers that end with renderUI
RenderOps == {"startLive", "message", "rateLimit", "refreshInterval", "key r", "key a", "key c"}

Rendered == last.op \in RenderOps

\* what the screen shows after a handler of RenderOps
Screen == renderUI(state, now, hostOffset)

\* the providers named on the screen or in the rate-limit ledger
ProvidersInPlay(screen) ==
  {screen.providers[i].providerID : i \in 1..Len(screen.providers)}
    \cup {screen.models[i].providerID : i \in 1..Len(screen.models)}
    \cup {state.rateLimitEvents[i].providerID : i \in 1..Len(state.rateLimitEvents)}

\* every rate-limit event of the provider is more than 5 minutes old
EventsAgedOut(providerID) ==
  \A i \in 1..Len(state.rateLimitEvents) :
    state.rateLimitEvents[i].providerID = providerID =>
      TsGt(now, TsAdd(state.rateLimitEvents[i].timestamp, Minutes(5)))

\* the screen shows the provider ok and none of its models in error
ShownRecovered(screen, providerID) ==
  /\ \A i \in 1..Len(screen.providers) :
       screen.providers[i].providerID = providerID =>
         /\ screen.providers[i].health.status = "ok"
         /\ screen.providers[i].health.rateLimitCount5m = 0
  /\ \A i \in 1..Len(screen.models) :
       screen.models[i].providerID = providerID =>
         screen.models[i].health.status # "error"

\* a render after the provider's events aged out shows it recovered
ProvidersDecay ==
  Rendered =>
    \A screen \in {Screen} :
      \A p \in ProvidersInPlay(screen) : EventsAgedOut(p) => ShownRecovered(screen, p)

IdleOver30Minutes(entry) == TsGt(now, TsAdd(entry.lastSeen, Minutes(30)))

\* a model idle for more than 30 minutes is shown stale, or error while its
\* provider is throttled
ModelsDecay ==
  Rendered =>
    \A screen \in {Screen} :
      \A i \in 1..Len(screen.models) :
        IdleOver30Minutes(screen.models[i]) =>
          screen.models[i].health.status =
            (IF RecentCount(screen.models[i].providerID) >= 3 THEN "error" ELSE "stale")

\* a model idle for more than 30 minutes is shown stale
ModelsDecayAlways ==
  Rendered =>
    \A screen \in {Screen} :
      \A i \in 1..Len(screen.models) :
        IdleOver30Minutes(screen.models[i]) => screen.models[i].health.status = "stale"

HasRateLimitEvent == state.rateLimitEvents # <<>>

\* a render made once every rate-limit event of the ledger has aged out
RenderedAfterDecay ==
  /\ Rendered
  /\ \A screen \in {Screen} :
       \A p \in ProvidersInPlay(screen) : EventsAgedOut(p) /\ ShownRecovered(screen, p)

\* C21: health decays with the clock alone.  In every render made more than
\* 5 minutes after a provider's latest rate-limit event the provider is ok
\* and none of its models is error; in every render a model idle for more
\* than 30 minutes is stale, unless its provider is throttled at that time,
\* in which case it is error; and once an event is in the ledger, the clock
\* and the refresh interval alone lead to a render in which every provider
\* has recovered.
C21_HealthDecays ==
  /\ [](ProvidersDecay /\ ModelsDecay)
  /\ HasRateLimitEvent ~> RenderedAfterDecay

\* the refresh interval rendered, after the clock alone had moved on, a
\* provider that had three events as ok and its idle model as stale
C21_Witness ==
  /\ last.op = "refreshInterval"
  /\ Len(state.rateLimitEvents) = 3
  /\ EventsAgedOut("openai")
  /\ \E screen \in {Screen} :
       /\ \E i \in 1..Len(screen.providers) :
            /\ screen.providers[i].providerID = "openai"
            /\ screen.providers[i].health.status = "ok"
       /\ \E i \in 1..Len(screen.models) :
            /\ screen.models[i].providerID = "openai"
            /\ IdleOver30Minutes(screen.models[i])
            /\ screen.models[i].health.status = "stale"

\* C21 as worded: a model that receives no message for more than 30 minutes
\* is shown stale in every render
C21_AsStated == [](ProvidersDecay /\ ModelsDecayAlways)

EntriesOf(results) == {results[i] : i \in 1..Len(results)}

ModelStatsOfLastQuery(sortMode) ==
  IF last.op = "getModelStatsMTD"
  THEN getModelStatsMTD(state, sortMode, now, hostOffset)
  ELSE getModelStatsAll(state, sortMode, now)

\* C31: the model statistics list is ordered by the sort mode passed in:
\* descending total cost for cost, descending total tokens for tokens,
\* ascending model id for name; the set of entries is the same for all three
\* modes.
C31_ModelSortModes ==
  IsModelQuery =>
    /\ \A i \in 1..(Len(last.ret) - 1) :
         CASE last.arg = "cost"   -> last.ret[i].totalCost >= last.ret[i + 1].totalCost
           [] last.arg = "tokens" -> last.ret[i].totalTokens >= last.ret[i + 1].totalTokens
           [] last.arg = "name"   ->
                NameRank(last.ret[i].modelID) < NameRank(last.ret[i + 1].modelID)
    /\ \A sortMode \in SortModes :
         /\ EntriesOf(ModelStatsOfLastQuery(sortMode)) = EntriesOf(last.ret)
         /\ Len(ModelStatsOfLastQuery(sortMode)) = Len(last.ret)

\* a list by name of two models whose order by cost is the reverse and whose
\* order by tokens is the same
C31_Witness ==
  /\ IsModelQuery
  /\ last.arg = "name"
  /\ Len(last.ret) = 2
  /\ last.ret[1].totalCost < last.ret[2].totalCost
  /\ last.ret[1].totalTokens > last.ret[2].totalTokens
  /\ ModelStatsOfLastQuery("cost") = Reverse(last.ret)
  /\ ModelStatsOfLastQuery("tokens") = last.ret

MessageCountOf(entry) == entry.messageCount

TotalTokensOf(entry) == entry.totalTokens

TotalCostOf(entry) == entry.totalCost

\* the three sums over the entries of a grouped list equal those of the window
EntriesSumTo(results, window) ==
  /\ SumSeq([i \in 1..Len(results) |-> MessageCountOf(results[i])]) = window.messageCount
  /\ SumSeq([i \in 1..Len(results) |-> TotalTokensOf(results[i])]) = window.totalTokens
  /\ SumSeq([i \in 1..Len(results) |-> TotalCostOf(results[i])]) = window.totalCost

C35_IndexMatchesLedger ==
  /\ DOMAIN state.messageIndex = LedgerIds(state)
  /\ Cardinality(DOMAIN state.messageIndex) = Len(state.messages)
  /\ \A i \in 1..Len(state.messages) :
       state.messageIndex[state.messages[i].id] = state.messages[i]

\* a batch of two different records of one id has added the first of them to
\* a ledger that held another message
C35_Witness ==
  /\ last.op = "addMessages"
  /\ Len(last.arg) = 2
  /\ last.arg[1].id = last.arg[2].id
  /\ last.arg[1] # last.arg[2]
  /\ last.ret = 1
  /\ Len(state.messages) = 2
  /\ state.messageIndex[last.arg[1].id] = last.arg[1]

\* C36 as stated: in every reachable state, including after pruneOldData,
\* every ledger message with token data has a time-series point for its
\* minute, and each point's token sum equals the sum of input + output +
\* reasoning over the ledger messages of that minute.
C36_SeriesMatchesLedger ==
  /\ \A i \in 1..Len(state.messages) :
       HasTokens(state.messages[i]) =>
         MinuteStartOf(state.messages[i].time.created) \in PointMinutes(state.timeSeries)
  /\ \A i \in 1..Len(state.timeSeries) :
       state.timeSeries[i].tokens =
         SumSeq(Map(TokenMessagesOfMinute(state.timeSeries[i].timestamp), TotalOf))

\* the state after ingesting, in the order of the two lists, the messages and
\* the events that state s holds
InListOrder(s, t) ==
  LET msgs   == SelectSeq(OrderMsgSeq, LAMBDA m : InSeq(m, s.messages))
      events == SelectSeq(OrderEventSeq, LAMBDA e : InSeq(e, s.rateLimitEvents))
      F[i \in 0..Len(events)] ==
        IF i = 0 THEN addMessages(createInitialState(t), msgs, t).state
        ELSE addRateLimitEvent(F[i - 1], events[i])
  IN  F[Len(events)]

SameAllTimeStats(s1, s2) == getAllTimeStats(s1) = getAllTimeStats(s2)

SameProviderStats(s1, s2) == getProviderStatsAll(s1, now) = getProviderStatsAll(s2, now)

SameModelStats(s1, s2) ==
  \A sortMode \in SortModes :
    getModelStatsAll(s1, sortMode, now) = getModelStatsAll(s2, sortMode, now)

DistinctCreationTimes(s) ==
  \A i, j \in 1..Len(s.messages) :
    s.messages[i].time.created = s.messages[j].time.created => i = j

DistinctEventTimes(s) ==
  \A i, j \in 1..Len(s.rateLimitEvents) :
    s.rateLimitEvents[i].timestamp = s.rateLimitEvents[j].timestamp => i = j

WorkersOn(w, path) == {i \in 1..Len(w.polls) : w.polls[i].path = Some(path)}

\* the positions of the log at which the file at path was read
ReadsOf(w, path) == {k \in 1..Len(w.log) : w.log[k].path = path}

\* C32: each poller processes every record file path at most once over its
\* lifetime: a path recorded by the initial load is never emitted by a later
\* poll, and a path discovered by a poll is read and emitted at most once even
\* when a new poll tick starts while an earlier poll is still awaiting its
\* settle delay or file read.
C32_EachPathOnce ==
  \A path \in Range(PathOrder) :
    /\ Cardinality(ReadsOf(watcher, path)) + Cardinality(WorkersOn(watcher, path)) <= 1
    /\ (ReadsOf(watcher, path) # {} \/ WorkersOn(watcher, path) # {}) =>
         path \in watcher.seenFiles

\* f1 was read by the initial load and f2 is being worked on by a poll, in
\* its settle delay or its read, while a second poll has listed both files
\* and found nothing to do
C32_Witness ==
  /\ last.op = "readdir"
  /\ last.ret = <<"f1", "f2">>
  /\ Len(watcher.polls) = 1
  /\ watcher.polls[1].path = Some("f2")
  /\ watcher.polls[1].phase \in {"settle", "read"}
  /\ ReadsOf(watcher, "f1") = {1}
  /\ ReadsOf(watcher, "f2") = {}

\* the file at path holds a complete message record with token data
HoldsTokenRecord(disk, path) ==
  IF Parseable(disk, path) THEN disk[path][1].content[1].tokens # None ELSE FALSE

\* a poll has read the file at path and emitted its record
EmittedByPoll(w, path) ==
  \E k \in ReadsOf(w, path) : w.log[k].outcome = "emitted" /\ ~w.log[k].atLoad

Polling == watcher.kind = "message" /\ watcher.lifecycle = "polling"

Stopped == watcher.lifecycle = "stopped"

\* the file at path is there and the initial load has not read it
AppearedAfterLoad(path) ==
  /\ watcher.disk[path] # None
  /\ \A k \in ReadsOf(watcher, path) : ~watcher.log[k].atLoad

EmittedAndIngestedIn(w, s, path) ==
  /\ EmittedByPoll(w, path)
  /\ w.disk[path][1].content[1].id \in HeldIds("message", s)

EmittedAndIngested(path) == EmittedAndIngestedIn(watcher, state, path)

C34_HandlersRunToCompletion ==
  [][/\ state' # state => (last.op \notin HandlerOps /\ last'.op \in HandlerOps)
     /\ (last.op \in HandlerOps /\ last' # last) =>
          /\ last'.op = "renderUI"
          /\ last'.ret = Rendering(state)
          /\ state' = state]_vars

\* a message event has just been handled, its render still to come, in a
\* state of three messages and one rate-limit event after both toggles
C34_Witness ==
  /\ last.op = "on message"
  /\ Len(state.messages) = 3
  /\ Len(state.rateLimitEvents) = 1
  /\ state.viewMode = "all"
  /\ state.sortMode = "tokens"

\* C39: over any run of the live dashboard (initial load of all stored
\* messages, later message events, periodic refresh ticks that prune with the
\* default maximum age), the all-time messageCount and totalTokens never
\* decrease from one render to the next.
C39_AllTimeNeverDecreases ==
  [][(last.op = "renderUI" /\ last'.op \in HandlerOps) =>
       \A next \in {Rendering(state')} :
         /\ next.allTime.messageCount >= last.ret.allTime.messageCount
         /\ next.allTime.totalTokens >= last.ret.allTime.totalTokens]_vars

====
